---- MODULE Spec2Model ----
(***************************************************************************)
(* Model of the math core (vector / quaternion / matrix algebra) and of    *)
(* the camera built on it.                                                 *)
(*                                                                         *)
(* Numbers: an f32 is modelled by the real number it stands for, held as   *)
(* an exact rational [n |-> numerator, d |-> denominator] in lowest terms  *)
(* with d > 0.  A non-finite result (division by zero, sqrt of a negative) *)
(* is the single value NaN == [n |-> 0, d |-> 0], which every operation    *)
(* propagates and every comparison rejects.                                *)
(*                                                                         *)
(* Angles: a Radians value is the real angle 2*pi*w + arg(c, s), held as   *)
(* [w |-> turns, c |-> cosine, s |-> sine] with (c, s) a rational point of *)
(* the unit circle and arg in (-pi, pi].  sin_cos reads (s, c) off it.     *)
(***************************************************************************)
EXTENDS Integers, Sequences, FiniteSets, TLC

VARIABLES
    op,     \* the operation applied last ("init" before any)
    res,    \* what the operation applied last returned
    lhs,    \* Matrix operand (self)
    rhs,    \* Matrix operand (rhs)
    vec,    \* Vector4 operand
    qa,     \* Quaternion operand (self)
    qb,     \* Quaternion operand (rhs, target)
    amt,    \* interpolation amount
    cam,    \* the Camera3D: position, target, up, fovy, projection
    before, \* the Camera3D as it was when the last call began
    arg,    \* the arguments of the last call
    calls   \* number of camera calls made

vars == <<op, res, lhs, rhs, vec, qa, qb, amt, cam, before, arg, calls>>

--------------------------------------------------------------------------
(* f32 arithmetic over exact rationals *)

Abs(i) == IF i < 0 THEN -i ELSE i

RECURSIVE GCD(_, _)
GCD(i, j) == IF j = 0 THEN i ELSE GCD(j, i % j)

NaN == [n |-> 0, d |-> 0]

IsNaN(x) == x.d = 0

Q(i, j) ==
    IF j = 0 THEN NaN
    ELSE LET g == GCD(Abs(i), Abs(j))
             sg == IF j < 0 THEN -1 ELSE 1
         IN  [n |-> sg * (i \div g), d |-> sg * (j \div g)]

R(i) == [n |-> i, d |-> 1]

\* sums and products reduce by common factors first, to stay within 32 bits
FAdd(x, y) ==
    IF IsNaN(x) \/ IsNaN(y) THEN NaN
    ELSE IF x.d = 1 /\ y.d = 1 THEN R(x.n + y.n)
    ELSE LET g == GCD(x.d, y.d)
         IN  Q(x.n * (y.d \div g) + y.n * (x.d \div g), (x.d \div g) * y.d)

FNeg(x) == IF IsNaN(x) THEN NaN ELSE [n |-> -x.n, d |-> x.d]

FSub(x, y) == FAdd(x, FNeg(y))

FMul(x, y) ==
    IF IsNaN(x) \/ IsNaN(y) THEN NaN
    ELSE IF x.d = 1 /\ y.d = 1 THEN R(x.n * y.n)
    ELSE LET g1 == GCD(Abs(x.n), y.d)
             g2 == GCD(Abs(y.n), x.d)
         IN  [n |-> (x.n \div g1) * (y.n \div g2), d |-> (x.d \div g2) * (y.d \div g1)]

FDiv(x, y) ==
    IF IsNaN(x) \/ IsNaN(y) \/ y.n = 0 THEN NaN
    ELSE FMul(x, IF y.n < 0 THEN [n |-> -y.d, d |-> -y.n] ELSE [n |-> y.d, d |-> y.n])

FLt(x, y) ==
    /\ ~IsNaN(x)
    /\ ~IsNaN(y)
    /\ LET g == GCD(x.d, y.d) IN x.n * (y.d \div g) < y.n * (x.d \div g)

FLe(x, y) ==
    /\ ~IsNaN(x)
    /\ ~IsNaN(y)
    /\ LET g == GCD(x.d, y.d) IN x.n * (y.d \div g) <= y.n * (x.d \div g)

FGt(x, y) == FLt(y, x)

FGe(x, y) == FLe(y, x)

FAbsF(x) == IF IsNaN(x) THEN NaN ELSE [n |-> Abs(x.n), d |-> x.d]

\* f32::max: the other operand when one is NaN
FMax(x, y) == IF IsNaN(x) THEN y ELSE IF IsNaN(y) THEN x ELSE IF FLt(x, y) THEN y ELSE x

\* integer square root (floor), by Newton's iteration from above
RECURSIVE ISqrtFrom(_, _)
ISqrtFrom(i, k) ==
    LET j == (k + i \div k) \div 2 IN IF j >= k THEN k ELSE ISqrtFrom(i, j)

ISqrt(i) == IF i < 2 THEN i ELSE ISqrtFrom(i, i \div 2 + 1)

IsSquare(i) == i >= 0 /\ ISqrt(i) * ISqrt(i) = i

\* f32::sqrt on the values whose root is rational; NaN for a negative
FSqrt(x) ==
    IF IsNaN(x) \/ x.n < 0 THEN NaN
    ELSE [n |-> ISqrt(x.n), d |-> ISqrt(x.d)]

HasExactSqrt(x) == ~IsNaN(x) /\ IsSquare(x.n) /\ IsSquare(x.d)

Zero == R(0)
One == R(1)
Two == R(2)
Half == Q(1, 2)

--------------------------------------------------------------------------
(* Vector3, Vector4 *)

Vector3(x, y, z) == [x |-> x, y |-> y, z |-> z]

Vector4(x, y, z, w) == [x |-> x, y |-> y, z |-> z, w |-> w]

V3(i, j, k) == Vector3(R(i), R(j), R(k))

V4(i, j, k, l) == Vector4(R(i), R(j), R(k), R(l))

UNIT_Y == V3(0, 1, 0)

Vector3Neg(a) == Vector3(FNeg(a.x), FNeg(a.y), FNeg(a.z))

Vector3Add(a, b) == Vector3(FAdd(a.x, b.x), FAdd(a.y, b.y), FAdd(a.z, b.z))

Vector3Sub(a, b) == Vector3(FSub(a.x, b.x), FSub(a.y, b.y), FSub(a.z, b.z))

Vector3MulF(a, f) == Vector3(FMul(a.x, f), FMul(a.y, f), FMul(a.z, f))

\* Div<f32>: multiplies by the reciprocal
Vector3DivF(a, f) ==
    LET inv == FDiv(One, f) IN Vector3(FMul(a.x, inv), FMul(a.y, inv), FMul(a.z, inv))

Vector3Dot(a, b) == FAdd(FAdd(FMul(a.x, b.x), FMul(a.y, b.y)), FMul(a.z, b.z))

cross_product(a, b) ==
    Vector3(FSub(FMul(a.y, b.z), FMul(a.z, b.y)),
            FSub(FMul(a.z, b.x), FMul(a.x, b.z)),
            FSub(FMul(a.x, b.y), FMul(a.y, b.x)))

Vector3MagnitudeSqr(a) == Vector3Dot(a, a)

Vector3Magnitude(a) == FSqrt(Vector3MagnitudeSqr(a))

Vector3Normalize(a) == Vector3DivF(a, Vector3Magnitude(a))

Vector3Distance(a, b) == Vector3Magnitude(Vector3Sub(a, b))

--------------------------------------------------------------------------
(* Matrix: array of rows, each row an array of columns; E(M, r, c) is      *)
(* self.0[r][c] with the source's indices 0..3                              *)

E(M, r, c) == M[r + 1][c + 1]

IDENTITY ==
    << <<One, Zero, Zero, Zero>>,
       <<Zero, One, Zero, Zero>>,
       <<Zero, Zero, One, Zero>>,
       <<Zero, Zero, Zero, One>> >>


\* the sixteen entries written row after row
MatrixToArrayRowMajor(M) ==
    << E(M,0,0), E(M,0,1), E(M,0,2), E(M,0,3),
       E(M,1,0), E(M,1,1), E(M,1,2), E(M,1,3),
       E(M,2,0), E(M,2,1), E(M,2,2), E(M,2,3),
       E(M,3,0), E(M,3,1), E(M,3,2), E(M,3,3) >>

\* From<Matrix> for [f32; 16]: element k (0-based) of the array
MatrixToArray(M) ==
    << E(M,0,0), E(M,1,0), E(M,2,0), E(M,3,0),
       E(M,0,1), E(M,1,1), E(M,2,1), E(M,3,1),
       E(M,0,2), E(M,1,2), E(M,2,2), E(M,3,2),
       E(M,0,3), E(M,1,3), E(M,2,3), E(M,3,3) >>

Sum4(a, b, c, d) == FAdd(FAdd(FAdd(a, b), c), d)

\* one entry of impl Mul for Matrix: row i, position j of the result
MulEntry(self, other, i, j) ==
    Sum4(FMul(E(self,0,i), E(other,j,0)), FMul(E(self,1,i), E(other,j,1)),
         FMul(E(self,2,i), E(other,j,2)), FMul(E(self,3,i), E(other,j,3)))

MatrixMul(self, other) ==
    << <<MulEntry(self,other,0,0), MulEntry(self,other,0,1), MulEntry(self,other,0,2), MulEntry(self,other,0,3)>>,
       <<MulEntry(self,other,1,0), MulEntry(self,other,1,1), MulEntry(self,other,1,2), MulEntry(self,other,1,3)>>,
       <<MulEntry(self,other,2,0), MulEntry(self,other,2,1), MulEntry(self,other,2,2), MulEntry(self,other,2,3)>>,
       <<MulEntry(self,other,3,0), MulEntry(self,other,3,1), MulEntry(self,other,3,2), MulEntry(self,other,3,3)>> >>

MatrixTranspose(M) ==
    << <<E(M,0,0), E(M,1,0), E(M,2,0), E(M,3,0)>>,
       <<E(M,0,1), E(M,1,1), E(M,2,1), E(M,3,1)>>,
       <<E(M,0,2), E(M,1,2), E(M,2,2), E(M,3,2)>>,
       <<E(M,0,3), E(M,1,3), E(M,2,3), E(M,3,3)>> >>

MatrixTranslate(x, y, z) ==
    << <<One, Zero, Zero, x>>,
       <<Zero, One, Zero, y>>,
       <<Zero, Zero, One, z>>,
       <<Zero, Zero, Zero, One>> >>

MatrixScale(x, y, z) ==
    << <<x, Zero, Zero, Zero>>,
       <<Zero, y, Zero, Zero>>,
       <<Zero, Zero, z, Zero>>,
       <<Zero, Zero, Zero, One>> >>

\* Radians::sin_cos
sin_cos(angle) == <<angle.s, angle.c>>

MatrixRotateY(angle) ==
    LET sinres == sin_cos(angle)[1]
        cosres == sin_cos(angle)[2]
    IN  << <<cosres, Zero, sinres, Zero>>,
           <<Zero, One, Zero, Zero>>,
           <<FNeg(sinres), Zero, cosres, Zero>>,
           <<Zero, Zero, Zero, One>> >>

MatrixRotateX(angle) ==
    LET sinres == sin_cos(angle)[1]
        cosres == sin_cos(angle)[2]
    IN  << <<One, Zero, Zero, Zero>>,
           <<Zero, cosres, FNeg(sinres), Zero>>,
           <<Zero, sinres, cosres, Zero>>,
           <<Zero, Zero, Zero, One>> >>


MatrixRotateZ(angle) ==
    LET sinres == sin_cos(angle)[1]
        cosres == sin_cos(angle)[2]
    IN  << <<cosres, FNeg(sinres), Zero, Zero>>,
           <<sinres, cosres, Zero, Zero>>,
           <<Zero, Zero, One, Zero>>,
           <<Zero, Zero, Zero, One>> >>

\* Matrix::rotate_xyz
MatrixRotateXYZ(x, y, z) ==
    LET sin_x == sin_cos(x)[1]
        cos_x == sin_cos(x)[2]
        sin_y == sin_cos(y)[1]
        cos_y == sin_cos(y)[2]
        sin_z == sin_cos(z)[1]
        cos_z == sin_cos(z)[2]
    IN  << << FMul(cos_z, cos_y), FMul(sin_z, cos_y), FNeg(sin_y), Zero >>,
           << FSub(FMul(FMul(cos_z, sin_y), sin_x), FMul(sin_z, cos_x)),
              FAdd(FMul(FMul(sin_z, sin_y), sin_x), FMul(cos_z, cos_x)),
              FMul(cos_y, sin_x), Zero >>,
           << FAdd(FMul(FMul(cos_z, sin_y), cos_x), FMul(sin_z, sin_x)),
              FSub(FMul(FMul(sin_z, sin_y), cos_x), FMul(cos_z, sin_x)),
              FMul(cos_y, cos_x), Zero >>,
           << Zero, Zero, Zero, One >> >>

\* Matrix::rotate: rotation matrix from axis and angle
MatrixRotate(axis, angle) ==
    LET a == Vector3Normalize(axis)
        x == a.x
        y == a.y
        z == a.z
        sinres == sin_cos(angle)[1]
        cosres == sin_cos(angle)[2]
        t == FSub(One, cosres)
        P(u, v) == FMul(FMul(u, v), t)
    IN  << <<FAdd(P(x,x), cosres), FSub(P(x,y), FMul(z, sinres)), FAdd(P(x,z), FMul(y, sinres)), Zero>>,
           <<FAdd(P(y,x), FMul(z, sinres)), FAdd(P(y,y), cosres), FSub(P(y,z), FMul(x, sinres)), Zero>>,
           <<FSub(P(z,x), FMul(y, sinres)), FAdd(P(z,y), FMul(x, sinres)), FAdd(P(z,z), cosres), Zero>>,
           <<Zero, Zero, Zero, One>> >>


\* the sum of the terms of a sequence, left to right
RECURSIVE SumFrom(_, _, _)
SumFrom(terms, k, acc) ==
    IF k > Len(terms) THEN acc ELSE SumFrom(terms, k + 1, FAdd(acc, terms[k]))

\* a determinant that is right for triangular matrices only
MatrixDetDiagonal(M) == FMul(FMul(FMul(E(M,0,0), E(M,1,1)), E(M,2,2)), E(M,3,3))

\* Matrix::det: the 24 signed products, in the order of the source
MatrixDet(M) ==
    LET arr == MatrixToArray(M)
        a(i, j) == arr[4 * i + j + 1]
        P4(p, q, r, s) == FMul(FMul(FMul(p, q), r), s)
        terms == <<
            P4(a(3,0), a(2,1), a(1,2), a(0,3)),
            FNeg(P4(a(2,0), a(3,1), a(1,2), a(0,3))),
            FNeg(P4(a(3,0), a(1,1), a(2,2), a(0,3))),
            P4(a(1,0), a(3,1), a(2,2), a(0,3)),
            P4(a(2,0), a(1,1), a(3,2), a(0,3)),
            FNeg(P4(a(1,0), a(2,1), a(3,2), a(0,3))),
            FNeg(P4(a(3,0), a(2,1), a(0,2), a(1,3))),
            P4(a(2,0), a(3,1), a(0,2), a(1,3)),
            P4(a(3,0), a(0,1), a(2,2), a(1,3)),
            FNeg(P4(a(0,0), a(3,1), a(2,2), a(1,3))),
            FNeg(P4(a(2,0), a(0,1), a(3,2), a(1,3))),
            P4(a(0,0), a(2,1), a(3,2), a(1,3)),
            P4(a(3,0), a(1,1), a(0,2), a(2,3)),
            FNeg(P4(a(1,0), a(3,1), a(0,2), a(2,3))),
            FNeg(P4(a(3,0), a(0,1), a(1,2), a(2,3))),
            P4(a(0,0), a(3,1), a(1,2), a(2,3)),
            P4(a(1,0), a(0,1), a(3,2), a(2,3)),
            FNeg(P4(a(0,0), a(1,1), a(3,2), a(2,3))),
            FNeg(P4(a(2,0), a(1,1), a(0,2), a(3,3))),
            P4(a(1,0), a(2,1), a(0,2), a(3,3)),
            P4(a(2,0), a(0,1), a(1,2), a(3,3)),
            FNeg(P4(a(0,0), a(2,1), a(1,2), a(3,3))),
            FNeg(P4(a(1,0), a(0,1), a(2,2), a(3,3))),
            P4(a(0,0), a(1,1), a(2,2), a(3,3)) >>
    IN  SumFrom(terms, 2, terms[1])

\* the value Matrix::invert takes the reciprocal of
InvertDenominator(M) ==
    LET arr == MatrixToArray(M)
        a(i, j) == arr[4 * i + j + 1]
        D(p, q, r, s) == FSub(FMul(p, q), FMul(r, s))
        b00 == D(a(0,0), a(1,1), a(0,1), a(1,0))
        b01 == D(a(0,0), a(1,2), a(0,2), a(1,0))
        b02 == D(a(0,0), a(1,3), a(0,3), a(1,0))
        b03 == D(a(0,1), a(1,2), a(0,2), a(1,1))
        b04 == D(a(0,1), a(1,3), a(0,3), a(1,1))
        b05 == D(a(0,2), a(1,3), a(0,3), a(1,2))
        b06 == D(a(2,0), a(3,1), a(2,1), a(3,0))
        b07 == D(a(2,0), a(3,2), a(2,2), a(3,0))
        b08 == D(a(2,0), a(3,3), a(2,3), a(3,0))
        b09 == D(a(2,1), a(3,2), a(2,2), a(3,1))
        b10 == D(a(2,1), a(3,3), a(2,3), a(3,1))
        b11 == D(a(2,2), a(3,3), a(2,3), a(3,2))
    IN  FAdd(FSub(FAdd(FAdd(FSub(FMul(b00, b11), FMul(b01, b10)), FMul(b02, b09)),
                       FMul(b03, b08)), FMul(b04, b07)), FMul(b05, b06))

\* an inverse that is right for rotations only
MatrixInvertAsTranspose(M) == MatrixTranspose(M)

MatrixInvert(M) ==
    LET arr == MatrixToArray(M)
        a(i, j) == arr[4 * i + j + 1]
        D(p, q, r, s) == FSub(FMul(p, q), FMul(r, s))
        b00 == D(a(0,0), a(1,1), a(0,1), a(1,0))
        b01 == D(a(0,0), a(1,2), a(0,2), a(1,0))
        b02 == D(a(0,0), a(1,3), a(0,3), a(1,0))
        b03 == D(a(0,1), a(1,2), a(0,2), a(1,1))
        b04 == D(a(0,1), a(1,3), a(0,3), a(1,1))
        b05 == D(a(0,2), a(1,3), a(0,3), a(1,2))
        b06 == D(a(2,0), a(3,1), a(2,1), a(3,0))
        b07 == D(a(2,0), a(3,2), a(2,2), a(3,0))
        b08 == D(a(2,0), a(3,3), a(2,3), a(3,0))
        b09 == D(a(2,1), a(3,2), a(2,2), a(3,1))
        b10 == D(a(2,1), a(3,3), a(2,3), a(3,1))
        b11 == D(a(2,2), a(3,3), a(2,3), a(3,2))
        inv_det == FDiv(One,
            FAdd(FSub(FAdd(FAdd(FSub(FMul(b00, b11), FMul(b01, b10)), FMul(b02, b09)),
                           FMul(b03, b08)), FMul(b04, b07)), FMul(b05, b06)))
        \* ( p*u - q*v + r*w) * inv_det
        T(p, u, q, v, r, w) ==
            FMul(FAdd(FSub(FMul(p, u), FMul(q, v)), FMul(r, w)), inv_det)
        N(p) == FNeg(p)
    IN  << << T(a(1,1), b11, a(1,2), b10, a(1,3), b09),
              T(N(a(1,0)), b11, N(a(1,2)), b08, N(a(1,3)), b07),
              T(a(1,0), b10, a(1,1), b08, a(1,3), b06),
              T(N(a(1,0)), b09, N(a(1,1)), b07, N(a(1,2)), b06) >>,
           << T(N(a(0,1)), b11, N(a(0,2)), b10, N(a(0,3)), b09),
              T(a(0,0), b11, a(0,2), b08, a(0,3), b07),
              T(N(a(0,0)), b10, N(a(0,1)), b08, N(a(0,3)), b06),
              T(a(0,0), b09, a(0,1), b07, a(0,2), b06) >>,
           << T(a(3,1), b05, a(3,2), b04, a(3,3), b03),
              T(N(a(3,0)), b05, N(a(3,2)), b02, N(a(3,3)), b01),
              T(a(3,0), b04, a(3,1), b02, a(3,3), b00),
              T(N(a(3,0)), b03, N(a(3,1)), b01, N(a(3,2)), b00) >>,
           << T(N(a(2,1)), b05, N(a(2,2)), b04, N(a(2,3)), b03),
              T(a(2,0), b05, a(2,2), b02, a(2,3), b01),
              T(N(a(2,0)), b04, N(a(2,1)), b02, N(a(2,3)), b00),
              T(a(2,0), b03, a(2,1), b01, a(2,2), b00) >> >>

\* MatrixTransform for Vector4
Vector4Transform(v, mat) ==
    Vector4(
        Sum4(FMul(E(mat,0,0), v.x), FMul(E(mat,0,1), v.y), FMul(E(mat,0,2), v.z), FMul(E(mat,0,3), v.w)),
        Sum4(FMul(E(mat,1,0), v.x), FMul(E(mat,1,1), v.y), FMul(E(mat,1,2), v.z), FMul(E(mat,1,3), v.w)),
        Sum4(FMul(E(mat,2,0), v.x), FMul(E(mat,2,1), v.y), FMul(E(mat,2,2), v.z), FMul(E(mat,2,3), v.w)),
        Sum4(FMul(E(mat,3,0), v.x), FMul(E(mat,3,1), v.y), FMul(E(mat,3,2), v.z), FMul(E(mat,3,3), v.w)))


--------------------------------------------------------------------------
(* Quaternion *)

Quaternion(x, y, z, w) == [x |-> x, y |-> y, z |-> z, w |-> w]

QUAT_IDENTITY == Quaternion(Zero, Zero, Zero, One)

QuaternionNeg(a) == Quaternion(FNeg(a.x), FNeg(a.y), FNeg(a.z), FNeg(a.w))

QuaternionAdd(a, b) ==
    Quaternion(FAdd(a.x, b.x), FAdd(a.y, b.y), FAdd(a.z, b.z), FAdd(a.w, b.w))

QuaternionMulF(a, f) ==
    Quaternion(FMul(a.x, f), FMul(a.y, f), FMul(a.z, f), FMul(a.w, f))

\* Div<f32>: multiplies by the reciprocal
QuaternionDivF(a, f) ==
    LET inv == FDiv(One, f)
    IN  Quaternion(FMul(a.x, inv), FMul(a.y, inv), FMul(a.z, inv), FMul(a.w, inv))

\* impl Mul for Quaternion
QuaternionMul(self, other) ==
    Quaternion(
        FSub(FAdd(FAdd(FMul(self.x, other.w), FMul(self.w, other.x)), FMul(self.y, other.z)), FMul(self.z, other.y)),
        FSub(FAdd(FAdd(FMul(self.y, other.w), FMul(self.w, other.y)), FMul(self.z, other.x)), FMul(self.x, other.z)),
        FSub(FAdd(FAdd(FMul(self.z, other.w), FMul(self.w, other.z)), FMul(self.x, other.y)), FMul(self.y, other.x)),
        FSub(FSub(FSub(FMul(self.w, other.w), FMul(self.w, other.x)), FMul(self.w, other.y)), FMul(self.z, other.z)))

QuaternionDot(a, b) ==
    Sum4(FMul(a.x, b.x), FMul(a.y, b.y), FMul(a.z, b.z), FMul(a.w, b.w))

QuaternionMagnitude(a) == FSqrt(QuaternionDot(a, a))

QuaternionNormalize(a) == QuaternionDivF(a, QuaternionMagnitude(a))

\* LerpTo for f32
lerp_to_f32(self, target, amount) == FAdd(self, FMul(amount, FSub(target, self)))

\* LerpTo for Quaternion
lerp_to(self, target, amount) ==
    Quaternion(lerp_to_f32(self.x, target.x, amount), lerp_to_f32(self.y, target.y, amount),
               lerp_to_f32(self.z, target.z, amount), lerp_to_f32(self.w, target.w, amount))

nlerp_to(self, target, amount) == QuaternionNormalize(lerp_to(self, target, amount))

\* From<Quaternion> for Matrix
MatrixFromQuaternion(q) ==
    LET a2 == FMul(q.x, q.x)
        b2 == FMul(q.y, q.y)
        c2 == FMul(q.z, q.z)
        ac == FMul(q.x, q.z)
        ab == FMul(q.x, q.y)
        bc == FMul(q.y, q.z)
        ad == FMul(q.w, q.x)
        bd == FMul(q.w, q.y)
        cd == FMul(q.w, q.z)
        Diag(u, v) == FSub(One, FMul(Two, FAdd(u, v)))
    IN  << <<Diag(b2, c2), FMul(Two, FSub(ab, cd)), FMul(Two, FAdd(ac, bd)), Zero>>,
           <<FMul(Two, FAdd(ab, cd)), Diag(a2, c2), FMul(Two, FSub(bc, ad)), Zero>>,
           <<FMul(Two, FSub(ac, bd)), FMul(Two, FAdd(bc, ad)), Diag(a2, b2), Zero>>,
           <<Zero, Zero, Zero, One>> >>


\* the four candidates of From<Matrix> for Quaternion, indices 0..3
FromMatrixCandidates(mat) ==
    << FAdd(FAdd(E(mat,0,0), E(mat,1,1)), E(mat,2,2)),
       FSub(FSub(E(mat,0,0), E(mat,1,1)), E(mat,2,2)),
       FSub(FSub(E(mat,1,1), E(mat,0,0)), E(mat,2,2)),
       FSub(FSub(E(mat,2,2), E(mat,0,0)), E(mat,1,1)) >>

\* partial_cmp(..).unwrap() inside max_by panics when a compared value is NaN
QuaternionFromMatrixPanics(mat) ==
    \E k \in 1..4 : IsNaN(FromMatrixCandidates(mat)[k])

\* Iterator::max_by: the last of the maximal elements (0-based index)
BiggestIndex(cands) ==
    IF \E k \in 1..4 : IsNaN(cands[k]) THEN 0 ELSE
    CHOOSE k \in 0..3 :
        /\ \A j \in 0..3 : FLe(cands[j + 1], cands[k + 1])
        /\ \A j \in (k + 1)..3 : FLt(cands[j + 1], cands[k + 1])

\* From<Matrix> for Quaternion (defined where it does not panic)
QuaternionFromMatrix(mat) ==
    LET cands == FromMatrixCandidates(mat)
        biggest_index == BiggestIndex(cands)
        four_biggest_squared_minus_1 == cands[biggest_index + 1]
        biggest_val == FMul(FAdd(four_biggest_squared_minus_1, One), Half)
        mult == FDiv(Q(1, 4), biggest_val)
    IN  CASE QuaternionFromMatrixPanics(mat) -> Quaternion(NaN, NaN, NaN, NaN)
          [] biggest_index = 0 ->
                [w |-> biggest_val,
                 x |-> FMul(FSub(E(mat,2,1), E(mat,1,2)), mult),
                 y |-> FMul(FSub(E(mat,0,2), E(mat,2,0)), mult),
                 z |-> FMul(FSub(E(mat,1,0), E(mat,0,1)), mult)]
          [] biggest_index = 1 ->
                [x |-> biggest_val,
                 w |-> FMul(FSub(E(mat,2,1), E(mat,1,2)), mult),
                 y |-> FMul(FAdd(E(mat,1,0), E(mat,0,1)), mult),
                 z |-> FMul(FAdd(E(mat,0,2), E(mat,2,0)), mult)]
          [] biggest_index = 2 ->
                [y |-> biggest_val,
                 w |-> FMul(FSub(E(mat,0,2), E(mat,2,0)), mult),
                 x |-> FMul(FAdd(E(mat,1,0), E(mat,0,1)), mult),
                 z |-> FMul(FAdd(E(mat,2,1), E(mat,1,2)), mult)]
          [] biggest_index = 3 ->
                [z |-> biggest_val,
                 w |-> FMul(FSub(E(mat,1,0), E(mat,0,1)), mult),
                 x |-> FMul(FAdd(E(mat,0,2), E(mat,2,0)), mult),
                 y |-> FMul(FAdd(E(mat,2,1), E(mat,1,2)), mult)]

\* f32::EPSILON = 2^-23 = 1 / EpsilonDen
EpsilonDen == 8388608

\* x <= f32::EPSILON * m, for x >= 0 and m >= 1, without leaving 32 bits
LeEpsilonTimes(x, m) ==
    LET r == FDiv(x, m) IN ~IsNaN(r) /\ r.n <= r.d \div EpsilonDen

\* NearEq for f32
near_eq(self, other) ==
    LeEpsilonTimes(FAbsF(FSub(self, other)), FMax(FMax(FAbsF(self), FAbsF(other)), One))

\* f32::signum: 1.0 for a positive number or +0.0, -1.0 for a negative one
signum(x) == IF IsNaN(x) THEN NaN ELSE IF x.n < 0 THEN R(-1) ELSE One

\* the upper-left block with the scale divided out, as decompose builds it
RemoveScale(M, scale) ==
    << <<FDiv(E(M,0,0), scale.x), FDiv(E(M,0,1), scale.y), FDiv(E(M,0,2), scale.z), E(M,0,3)>>,
       <<FDiv(E(M,1,0), scale.x), FDiv(E(M,1,1), scale.y), FDiv(E(M,1,2), scale.z), E(M,1,3)>>,
       <<FDiv(E(M,2,0), scale.x), FDiv(E(M,2,1), scale.y), FDiv(E(M,2,2), scale.z), E(M,2,3)>>,
       <<E(M,3,0), E(M,3,1), E(M,3,2), E(M,3,3)>> >>

DecomposeDet(M) ==
    LET a == E(M,0,0)
        b == E(M,1,0)
        c == E(M,2,0)
        d == E(M,0,1)
        e == E(M,1,1)
        f == E(M,2,1)
        g == E(M,0,2)
        h == E(M,1,2)
        i == E(M,2,2)
    IN  FAdd(FAdd(FMul(a, FSub(FMul(e, i), FMul(f, h))),
                  FMul(b, FSub(FMul(f, g), FMul(d, i)))),
             FMul(c, FSub(FMul(d, h), FMul(e, g))))

DecomposeTranslation(M) == Vector3(E(M,3,0), E(M,3,1), E(M,3,2))

DecomposeScale(M) ==
    Vector3MulF(
        Vector3(Vector3Magnitude(Vector3(E(M,0,0), E(M,1,0), E(M,2,0))),
                Vector3Magnitude(Vector3(E(M,0,1), E(M,1,1), E(M,2,1))),
                Vector3Magnitude(Vector3(E(M,0,2), E(M,1,2), E(M,2,2)))),
        signum(DecomposeDet(M)))

\* the matrix decompose hands to From<Matrix> for Quaternion
DecomposeClone(M) == RemoveScale(M, DecomposeScale(M))

MatrixDecomposePanics(M) ==
    ~near_eq(DecomposeDet(M), Zero) /\ QuaternionFromMatrixPanics(DecomposeClone(M))

\* Matrix::decompose: (translation, rotation, scale)
MatrixDecompose(M) ==
    [translation |-> DecomposeTranslation(M),
     rotation |-> IF ~near_eq(DecomposeDet(M), Zero)
                  THEN QuaternionFromMatrix(DecomposeClone(M))
                  ELSE QUAT_IDENTITY,
     scale |-> DecomposeScale(M)]


--------------------------------------------------------------------------
(* Radians values used as inputs *)

Radians(w, c, s) == [w |-> w, c |-> c, s |-> s]

\* the angle whose half is h (h in (-pi/2, pi/2])
DoubleAngle(h) ==
    Radians(0, FSub(FMul(h.c, h.c), FMul(h.s, h.s)), FMul(Two, FMul(h.s, h.c)))

ANGLE_ZERO == Radians(0, One, Zero)

\* PI / 2
FRAC_PI_2 == Radians(0, Zero, One)

\* half angles with rational sine and cosine
HalfAngles ==
    { Radians(0, Q(4, 5), Q(3, 5)), Radians(0, Q(3, 5), Q(4, 5)),
      Radians(0, Q(12, 13), Q(5, 13)), Radians(0, Q(4, 5), Q(-3, 5)) }

--------------------------------------------------------------------------
(* Arithmetic of Radians values: the real angle 2*pi*w + arg(c, s)          *)

PI == Radians(0, R(-1), Zero)

Upper(a) == FGe(a.s, Zero)

\* arg(a) < arg(b), both in (-pi, pi]
ArgLt(a, b) ==
    IF Upper(a) /\ Upper(b) THEN FGt(a.c, b.c)
    ELSE IF ~Upper(a) /\ ~Upper(b) THEN FLt(a.c, b.c)
    ELSE ~Upper(a)

AngleIsNaN(a) == IsNaN(a.c) \/ IsNaN(a.s)

AngleLt(a, b) ==
    ~AngleIsNaN(a) /\ ~AngleIsNaN(b) /\ (a.w < b.w \/ (a.w = b.w /\ ArgLt(a, b)))

AngleLe(a, b) == ~AngleIsNaN(a) /\ ~AngleIsNaN(b) /\ ~AngleLt(b, a)

AngleNeg(a) ==
    IF a.s = Zero /\ a.c = R(-1) THEN Radians(-a.w - 1, a.c, a.s)
    ELSE Radians(-a.w, a.c, FNeg(a.s))

AngleAdd(a, b) ==
    LET c == FSub(FMul(a.c, b.c), FMul(a.s, b.s))
        s == FAdd(FMul(a.s, b.c), FMul(a.c, b.s))
        carry == IF Upper(a) /\ Upper(b) /\ (FLt(s, Zero) \/ (a.c = R(-1) /\ b.c = R(-1)))
                 THEN 1
                 ELSE IF ~Upper(a) /\ ~Upper(b) /\ FGe(s, Zero) THEN -1 ELSE 0
    IN  Radians(a.w + b.w + carry, c, s)

AngleSub(a, b) == AngleAdd(a, AngleNeg(b))

\* f32::clamp panics when min > max or when either is NaN
ClampPanics(min, max) == ~AngleLe(min, max)

\* Radians::clamp
AngleClamp(x, min, max) ==
    IF AngleLt(x, min) THEN min ELSE IF AngleLt(max, x) THEN max ELSE x

--------------------------------------------------------------------------
(* Camera3D *)

Camera3D(position, target, upv, fovy, projection) ==
    [position |-> position, target |-> target, up |-> upv,
     fovy |-> fovy, projection |-> projection]

\* Vector3::rotate_by_axis_angle: v turned about the (normalized) axis by
\* angle, right-handed (Rodrigues' formula, as Matrix::rotate)
rotate_by_axis_angle(v, axis, angle) ==
    LET a == Vector3Normalize(axis)
        sinres == sin_cos(angle)[1]
        cosres == sin_cos(angle)[2]
    IN  Vector3Add(Vector3Add(Vector3MulF(v, cosres),
                              Vector3MulF(cross_product(a, v), sinres)),
                   Vector3MulF(a, FMul(Vector3Dot(a, v), FSub(One, cosres))))

\* Angle for Vector3: the angle in [0, pi] between two vectors,
\* atan2(|a x b|, a . b)
Vector3Angle(a, b) ==
    LET len == Vector3Magnitude(cross_product(a, b))
        dot == Vector3Dot(a, b)
        h == FSqrt(FAdd(FMul(len, len), FMul(dot, dot)))
    IN  IF h = Zero THEN ANGLE_ZERO ELSE Radians(0, FDiv(dot, h), FDiv(len, h))

CameraForward(c) == Vector3Normalize(Vector3Sub(c.target, c.position))

CameraUp(c) == Vector3Normalize(c.up)

CameraRight(c) == Vector3Normalize(cross_product(CameraForward(c), CameraUp(c)))

\* the guard band of pitch (0.001 rad in the source) is the angle
\* 2 * atan(1 / GuardDen), whose sine and cosine are rational
GuardDen == 4

GUARD ==
    Radians(0, Q(GuardDen * GuardDen - 1, GuardDen * GuardDen + 1),
               Q(2 * GuardDen, GuardDen * GuardDen + 1))

\* a yaw that turns the other way round
CameraYawClockwise(c, angle, rotate_around_target) ==
    LET target == rotate_by_axis_angle(Vector3Sub(c.target, c.position), CameraUp(c),
                                       AngleNeg(angle))
    IN  IF rotate_around_target
        THEN [c EXCEPT !.position = Vector3Sub(c.target, target)]
        ELSE [c EXCEPT !.target = Vector3Add(c.position, target)]

\* Camera::yaw
CameraYaw(c, angle, rotate_around_target) ==
    LET target == rotate_by_axis_angle(Vector3Sub(c.target, c.position), CameraUp(c), angle)
    IN  IF rotate_around_target
        THEN [c EXCEPT !.position = Vector3Sub(c.target, target)]
        ELSE [c EXCEPT !.target = Vector3Add(c.position, target)]

\* the bounds pitch clamps the angle to when lock_view is set
PitchMaxAngleUp(c) ==
    AngleSub(Vector3Angle(CameraUp(c), Vector3Sub(c.target, c.position)), GUARD)

PitchMaxAngleDown(c) ==
    AngleAdd(AngleNeg(Vector3Angle(Vector3Neg(CameraUp(c)), Vector3Sub(c.target, c.position))),
             GUARD)

CameraPitchPanics(c, angle, lock_view) ==
    lock_view /\ ClampPanics(PitchMaxAngleDown(c), PitchMaxAngleUp(c))

\* a pitch that does not clamp the angle
CameraPitchUnclamped(c, angle, lock_view, rotate_around_target, rotate_up) ==
    LET target_position0 == Vector3Sub(c.target, c.position)
        right == CameraRight(c)
        target_position == rotate_by_axis_angle(target_position0, right, angle)
        moved == IF rotate_around_target
                 THEN [c EXCEPT !.position = Vector3Sub(c.target, target_position)]
                 ELSE [c EXCEPT !.target = Vector3Add(c.position, target_position)]
    IN  IF rotate_up
        THEN [moved EXCEPT !.up = rotate_by_axis_angle(c.up, right, angle)]
        ELSE moved


\* a pitch that orbits the target whatever rotate_around_target says
CameraPitchAlwaysOrbits(c, angle0, lock_view, rotate_around_target, rotate_up) ==
    LET target_position0 == Vector3Sub(c.target, c.position)
        angle == IF lock_view
                 THEN AngleClamp(angle0, PitchMaxAngleDown(c), PitchMaxAngleUp(c))
                 ELSE angle0
        right == CameraRight(c)
        target_position == rotate_by_axis_angle(target_position0, right, angle)
        moved == [c EXCEPT !.position = Vector3Sub(c.target, target_position)]
    IN  IF rotate_up
        THEN [moved EXCEPT !.up = rotate_by_axis_angle(c.up, right, angle)]
        ELSE moved

\* Camera::pitch
CameraPitch(c, angle0, lock_view, rotate_around_target, rotate_up) ==
    LET target_position0 == Vector3Sub(c.target, c.position)
        angle == IF lock_view
                 THEN AngleClamp(angle0, PitchMaxAngleDown(c), PitchMaxAngleUp(c))
                 ELSE angle0
        right == CameraRight(c)
        target_position == rotate_by_axis_angle(target_position0, right, angle)
        moved == IF rotate_around_target
                 THEN [c EXCEPT !.position = Vector3Sub(c.target, target_position)]
                 ELSE [c EXCEPT !.target = Vector3Add(c.position, target_position)]
    IN  IF rotate_up
        THEN [moved EXCEPT !.up = rotate_by_axis_angle(c.up, right, angle)]
        ELSE moved

--------------------------------------------------------------------------
(* Matrix operations applied to drawn operands *)

MaxScale == 2

Scales == 1..MaxScale

Translations == { Vector3(R(1), R(2), R(3)), Vector3(R(-2), Zero, R(5)) }

\* translate(t) * rotate(UNIT_Y, angle) * scale(s, s, s)
TRS(t, angle, s) ==
    MatrixMul(MatrixMul(MatrixTranslate(t.x, t.y, t.z), MatrixRotate(UNIT_Y, angle)),
              MatrixScale(R(s), R(s), R(s)))

General ==
    << <<R(1), R(2), R(0), R(1)>>,
       <<R(0), R(1), R(3), R(0)>>,
       <<R(2), R(0), R(1), R(1)>>,
       <<R(1), R(0), R(0), R(2)>> >>

MatInputs ==
    { IDENTITY, General,
      MatrixTranslate(R(1), R(2), R(3)),
      MatrixScale(R(2), R(3), R(4)),
      MatrixScale(Zero, One, One),
      MatrixRotateY(Radians(0, Q(4, 5), Q(3, 5))),
      MatrixRotateX(FRAC_PI_2),
      MatrixMul(MatrixMul(MatrixTranslate(R(1), R(2), R(3)),
                          MatrixRotateY(Radians(0, Q(4, 5), Q(3, 5)))),
                MatrixScale(R(2), R(3), R(4))) }
    \cup { TRS(t, DoubleAngle(h), s) : t \in Translations, h \in HalfAngles, s \in Scales }

VecInputs == { V4(1, 2, 3, 1), V4(0, -1, 2, 0) }

NoQuat == QUAT_IDENTITY

NoCamera == Camera3D(V3(0, 0, 1), V3(0, 0, 0), V3(0, 1, 0), R(45), "Perspective")

NoArg == [none |-> TRUE]

Init ==
    /\ op = "init"
    /\ res = [panic |-> FALSE]
    /\ lhs \in MatInputs
    /\ rhs \in MatInputs
    /\ vec \in VecInputs
    /\ qa = NoQuat
    /\ qb = NoQuat
    /\ amt = Zero
    /\ cam = NoCamera
    /\ before = NoCamera
    /\ arg = NoArg
    /\ calls = 0

\* self * rhs
Mul ==
    /\ op = "init"
    /\ op' = "mul"
    /\ res' = [panic |-> FALSE, m |-> MatrixMul(lhs, rhs)]
    /\ UNCHANGED <<lhs, rhs, vec, qa, qb, amt, cam, before, arg, calls>>

\* self.invert() * self
InvertMul ==
    /\ op = "init"
    /\ op' = "invert_mul"
    /\ res' = [panic |-> FALSE, m |-> MatrixMul(MatrixInvert(lhs), lhs)]
    /\ UNCHANGED <<lhs, rhs, vec, qa, qb, amt, cam, before, arg, calls>>

\* vec.transform(self * rhs) and vec.transform(rhs).transform(self)
Transform ==
    /\ op = "init"
    /\ op' = "transform"
    /\ res' = [panic |-> FALSE,
               composed |-> Vector4Transform(vec, MatrixMul(lhs, rhs)),
               chained |-> Vector4Transform(Vector4Transform(vec, rhs), lhs)]
    /\ UNCHANGED <<lhs, rhs, vec, qa, qb, amt, cam, before, arg, calls>>

\* every entry of the matrix is a number
Finite(M) == \A r \in 0..3, c \in 0..3 : ~IsNaN(E(M, r, c))

\* the column magnitudes decompose takes are rational
ExactColumns(M) ==
    \A c \in 0..2 :
        HasExactSqrt(Vector3MagnitudeSqr(Vector3(E(M,0,c), E(M,1,c), E(M,2,c))))

\* self.decompose(), on the operands whose column magnitudes are rational
\* or not numbers at all; self is a drawn matrix or the inverse of one
Decompose ==
    /\ op \in {"init", "invert"}
    /\ ~Finite(lhs) \/ ExactColumns(lhs)
    /\ op' = "decompose"
    /\ res' = [panic |-> MatrixDecomposePanics(lhs), d |-> MatrixDecompose(lhs)]
    /\ UNCHANGED <<lhs, rhs, vec, qa, qb, amt, cam, before, arg, calls>>



\* MatrixTransform for Vector3
Vector3Transform(v, mat) ==
    [x |-> FAdd(FAdd(FAdd(FMul(E(mat,0,0), v.x), FMul(E(mat,0,1), v.y)),
                     FMul(E(mat,0,2), v.z)), E(mat,0,3)),
     y |-> FAdd(FAdd(FAdd(FMul(E(mat,1,0), v.x), FMul(E(mat,1,1), v.y)),
                     FMul(E(mat,1,2), v.z)), E(mat,1,3)),
     z |-> FAdd(FAdd(FAdd(FMul(E(mat,2,0), v.x), FMul(E(mat,2,1), v.y)),
                     FMul(E(mat,2,2), v.z)), E(mat,2,3))]

\* <[f32; 16]>::from(self)
ToArray ==
    /\ op = "init"
    /\ op' = "to_array"
    /\ res' = [panic |-> FALSE, arr |-> MatrixToArray(lhs)]
    /\ UNCHANGED <<lhs, rhs, vec, qa, qb, amt, cam, before, arg, calls>>

\* Vector3 { x, y, z }.transform(self), x, y, z those of vec
Transform3 ==
    /\ op = "init"
    /\ op' = "transform3"
    /\ res' = [panic |-> FALSE,
               v |-> Vector3Transform(Vector3(vec.x, vec.y, vec.z), lhs)]
    /\ UNCHANGED <<lhs, rhs, vec, qa, qb, amt, cam, before, arg, calls>>

Next == Mul \/ InvertMul \/ Transform \/ Decompose \/ ToArray \/ Transform3

Spec == Init /\ [][Next]_vars

\* one matrix is drawn, to be converted or decomposed as it is or inverted
InitInverse ==
    /\ op = "init"
    /\ res = [panic |-> FALSE]
    /\ lhs \in MatInputs
    /\ rhs = IDENTITY
    /\ vec \in VecInputs
    /\ qa = NoQuat
    /\ qb = NoQuat
    /\ amt = Zero
    /\ cam = NoCamera
    /\ before = NoCamera
    /\ arg = NoArg
    /\ calls = 0

\* self = self.invert()
Invert ==
    /\ op = "init"
    /\ op' = "invert"
    /\ lhs' = MatrixInvert(lhs)
    /\ res' = [panic |-> FALSE]
    /\ UNCHANGED <<rhs, vec, qa, qb, amt, cam, before, arg, calls>>

\* Quaternion::from(self), self a drawn matrix or the inverse of one
QuaternionFrom ==
    /\ op \in {"init", "invert"}
    /\ op' = "quaternion_from"
    /\ res' = [panic |-> QuaternionFromMatrixPanics(lhs), q |-> QuaternionFromMatrix(lhs)]
    /\ UNCHANGED <<lhs, rhs, vec, qa, qb, amt, cam, before, arg, calls>>


\* self.det(), self a drawn matrix or the inverse of one, next to the
\* denominator self.invert() computes
Det ==
    /\ op \in {"init", "invert"}
    /\ op' = "det"
    /\ res' = [panic |-> FALSE, det |-> MatrixDet(lhs), denominator |-> InvertDenominator(lhs)]
    /\ UNCHANGED <<lhs, rhs, vec, qa, qb, amt, cam, before, arg, calls>>

NextInverse == Invert \/ QuaternionFrom \/ Decompose \/ Det

SpecInverse == InitInverse /\ [][NextInverse]_vars


--------------------------------------------------------------------------
(* Quaternion operations applied to drawn operands *)

\* f32::acos on [-1, 1]: the angle in [0, pi] with this cosine
acos(x) == Radians(0, x, FSqrt(FSub(One, FMul(x, x))))

\* f32 * angle, for the factors 0.0, 0.5 and 1.0; the half of an angle of
\* [0, pi] by the half-angle formulas
AngleTimes(f, angle) ==
    CASE f = Zero -> ANGLE_ZERO
      [] f = One -> angle
      [] f = Half -> Radians(0, FSqrt(FMul(FAdd(One, angle.c), Half)),
                             FSqrt(FMul(FSub(One, angle.c), Half)))

\* 0 <= x < f32::EPSILON, without leaving 32 bits
LtEpsilon(x) == ~IsNaN(x) /\ x.n <= (x.d - 1) \div EpsilonDen

\* slerp_to without the turn to the nearer of target and -target
slerp_to_unflipped(self, target, amount) ==
    LET cos_half_theta == QuaternionDot(self, target)
    IN  IF FGe(cos_half_theta, One) THEN self
        ELSE IF FGt(cos_half_theta, Q(19, 20)) THEN nlerp_to(self, target, amount)
        ELSE LET half_theta == acos(cos_half_theta)
                 sin_half_theta == FSqrt(FSub(One, FMul(cos_half_theta, cos_half_theta)))
             IN  IF LtEpsilon(FAbsF(sin_half_theta))
                 THEN QuaternionAdd(QuaternionMulF(self, Half), QuaternionMulF(target, Half))
                 ELSE LET ratio_a == FDiv(sin_cos(AngleTimes(FSub(One, amount), half_theta))[1],
                                          sin_half_theta)
                          ratio_b == FDiv(sin_cos(AngleTimes(amount, half_theta))[1],
                                          sin_half_theta)
                      IN  QuaternionAdd(QuaternionMulF(self, ratio_a),
                                        QuaternionMulF(target, ratio_b))


\* slerp_to with the normalized lerp taken from 0.5 upwards, not from 0.95
slerp_to_wide_nlerp(self, target0, amount) ==
    LET dot0 == QuaternionDot(self, target0)
        flip == FLt(dot0, Zero)
        target == IF flip THEN QuaternionNeg(target0) ELSE target0
        cos_half_theta == IF flip THEN FNeg(dot0) ELSE dot0
    IN  IF FGe(cos_half_theta, One) THEN self
        ELSE IF FGt(cos_half_theta, Half) THEN nlerp_to(self, target, amount)
        ELSE slerp_to_unflipped(self, target, amount)

\* Quaternion::slerp_to
slerp_to(self, target0, amount) ==
    LET dot0 == QuaternionDot(self, target0)
        flip == FLt(dot0, Zero)
        target == IF flip THEN QuaternionNeg(target0) ELSE target0
        cos_half_theta == IF flip THEN FNeg(dot0) ELSE dot0
    IN  IF FGe(cos_half_theta, One) THEN self
        ELSE IF FGt(cos_half_theta, Q(19, 20)) THEN nlerp_to(self, target, amount)
        ELSE LET half_theta == acos(cos_half_theta)
                 sin_half_theta == FSqrt(FSub(One, FMul(cos_half_theta, cos_half_theta)))
             IN  IF LtEpsilon(FAbsF(sin_half_theta))
                 THEN QuaternionAdd(QuaternionMulF(self, Half), QuaternionMulF(target, Half))
                 ELSE LET ratio_a == FDiv(sin_cos(AngleTimes(FSub(One, amount), half_theta))[1],
                                          sin_half_theta)
                          ratio_b == FDiv(sin_cos(AngleTimes(amount, half_theta))[1],
                                          sin_half_theta)
                      IN  QuaternionAdd(QuaternionMulF(self, ratio_a),
                                        QuaternionMulF(target, ratio_b))

\* the last test of slerp_to alone, without the two returns that come before it
slerp_to_branch_unguarded(self, target0, amount) ==
    LET dot0 == QuaternionDot(self, target0)
        cos_half_theta == IF FLt(dot0, Zero) THEN FNeg(dot0) ELSE dot0
        sin_half_theta == FSqrt(FSub(One, FMul(cos_half_theta, cos_half_theta)))
    IN  IF LtEpsilon(FAbsF(sin_half_theta)) THEN "even" ELSE "slerp"

\* Quaternion::slerp_to: which of its four returns is taken, "self",
\* "nlerp", "even" (self * 0.5 + target * 0.5) or "slerp"
slerp_to_branch(self, target0, amount) ==
    LET dot0 == QuaternionDot(self, target0)
        cos_half_theta == IF FLt(dot0, Zero) THEN FNeg(dot0) ELSE dot0
    IN  IF FGe(cos_half_theta, One) THEN "self"
        ELSE IF FGt(cos_half_theta, Q(19, 20)) THEN "nlerp"
        ELSE LET sin_half_theta == FSqrt(FSub(One, FMul(cos_half_theta, cos_half_theta)))
             IN  IF LtEpsilon(FAbsF(sin_half_theta)) THEN "even" ELSE "slerp"

\* the square roots slerp_to takes on these operands are rational
SlerpExact(self, target, amount) ==
    LET c == FAbsF(QuaternionDot(self, target))
        l == lerp_to(self, IF FLt(QuaternionDot(self, target), Zero)
                           THEN QuaternionNeg(target) ELSE target, amount)
    IN  IF FGe(c, One) THEN TRUE
        ELSE IF FGt(c, Q(19, 20)) THEN HasExactSqrt(QuaternionDot(l, l))
        ELSE /\ HasExactSqrt(FSub(One, FMul(c, c)))
             /\ amount = Half =>
                   /\ HasExactSqrt(FMul(FAdd(One, c), Half))
                   /\ HasExactSqrt(FMul(FSub(One, c), Half))

QQ(x, y, z, w, den) == Quaternion(Q(x, den), Q(y, den), Q(z, den), Q(w, den))

UnitQuats ==
    { QUAT_IDENTITY, QQ(1, 0, 0, 0, 1), QQ(0, 0, -1, 0, 1),
      QQ(0, 3, 0, 4, 5), QQ(0, -3, 0, -4, 5), QQ(0, 4, 0, 3, 5),
      QQ(1, 1, 1, 1, 2), QQ(-1, 1, -1, 1, 2), QQ(2, 1, 2, 0, 3),
      QQ(0, 7, 0, 24, 25), QQ(3, 0, 4, 0, 5), QQ(2, 4, 5, 6, 9),
      QQ(0, -3, 0, 4, 5) }

QuatInputs ==
    UnitQuats \cup { QQ(1, 2, 3, 4, 1), QQ(2, -1, 0, 3, 1),
                     QQ(0, 0, 0, 24, 25), QQ(0, 0, 0, 3, 5) }

IsUnit(q) == QuaternionDot(q, q) = One

Amounts == { Zero, Half, One }

NoMatrix == IDENTITY

NoVector == V4(0, 0, 0, 0)

InitQuat ==
    /\ op = "init"
    /\ res = [panic |-> FALSE]
    /\ lhs = NoMatrix
    /\ rhs = NoMatrix
    /\ vec = NoVector
    /\ qa \in QuatInputs
    /\ qb \in QuatInputs
    /\ amt \in Amounts
    /\ cam = NoCamera
    /\ before = NoCamera
    /\ arg = NoArg
    /\ calls = 0

\* self * rhs
QuatMul ==
    /\ op = "init"
    /\ op' = "quat_mul"
    /\ res' = [panic |-> FALSE, q |-> QuaternionMul(qa, qb)]
    /\ UNCHANGED <<lhs, rhs, vec, qa, qb, amt, cam, before, arg, calls>>

\* Quaternion::from(Matrix::from(self)), and the Matrix of that again
RoundTrip ==
    /\ op = "init"
    /\ op' = "round_trip"
    /\ LET m == MatrixFromQuaternion(qa)
           q == QuaternionFromMatrix(m)
       IN  res' = [panic |-> QuaternionFromMatrixPanics(m), m |-> m, q |-> q,
                   m2 |-> MatrixFromQuaternion(q)]
    /\ UNCHANGED <<lhs, rhs, vec, qa, qb, amt, cam, before, arg, calls>>

\* self.slerp_to(target, amount), on the operands whose roots are rational
Slerp ==
    /\ op = "init"
    /\ SlerpExact(qa, qb, amt)
    /\ op' = "slerp"
    /\ res' = [panic |-> FALSE, q |-> slerp_to(qa, qb, amt),
               branch |-> slerp_to_branch(qa, qb, amt)]
    /\ UNCHANGED <<lhs, rhs, vec, qa, qb, amt, cam, before, arg, calls>>


\* f32::clamp(self, min, max), min <= max: NaN stays NaN
FClamp(x, min, max) ==
    IF IsNaN(x) THEN NaN ELSE IF FLt(x, min) THEN min ELSE IF FGt(x, max) THEN max ELSE x

\* Quaternion::to_euler: the arguments it hands to atan2 (x0, x1), asin (y0)
\* and atan2 (z0, z1); a method call binds tighter than *, so the clamp in
\* y0 is applied to the difference of products and the result then doubled
ToEulerArgs(self) ==
    [x0 |-> FMul(Two, FAdd(FMul(self.w, self.x), FMul(self.y, self.z))),
     x1 |-> FSub(One, FMul(Two, FAdd(FMul(self.x, self.x), FMul(self.y, self.y)))),
     y0 |-> FMul(Two, FClamp(FSub(FMul(self.w, self.y), FMul(self.z, self.x)), R(-1), One)),
     z0 |-> FMul(Two, FAdd(FMul(self.w, self.z), FMul(self.x, self.y))),
     z1 |-> FSub(One, FMul(Two, FAdd(FMul(self.y, self.y), FMul(self.z, self.z))))]

\* self.to_euler()
ToEuler ==
    /\ op = "init"
    /\ op' = "to_euler"
    /\ res' = [panic |-> FALSE, args |-> ToEulerArgs(qa)]
    /\ UNCHANGED <<lhs, rhs, vec, qa, qb, amt, cam, before, arg, calls>>

NextQuat == QuatMul \/ RoundTrip \/ Slerp \/ ToEuler

SpecQuat == InitQuat /\ [][NextQuat]_vars

--------------------------------------------------------------------------
(* Camera calls *)

MaxCalls == 2

\* the square roots the camera's derived directions take are rational
CameraExact(c) ==
    LET view == Vector3Sub(c.target, c.position)
    IN  /\ HasExactSqrt(Vector3MagnitudeSqr(view))
        /\ HasExactSqrt(Vector3MagnitudeSqr(c.up))
        /\ Vector3MagnitudeSqr(view) # Zero /\ Vector3MagnitudeSqr(c.up) # Zero =>
              HasExactSqrt(Vector3MagnitudeSqr(cross_product(CameraForward(c), CameraUp(c))))

CameraInputs ==
    { Camera3D(V3(0, 0, 5), V3(0, 0, 0), V3(0, 1, 0), R(45), "Perspective"),
      Camera3D(V3(4, 4, 1), V3(1, 0, 1), V3(0, 2, 0), R(60), "Orthographic"),
      Camera3D(V3(1, 2, 3), V3(1, 2, -2), V3(0, 1, 0), R(90), "Perspective") }

YawAngles == { FRAC_PI_2, Radians(0, Q(3, 5), Q(-4, 5)) }

A37 == Radians(0, Q(4, 5), Q(3, 5))

\* requested pitch angles, small and very large
PitchAngles == { A37, Radians(0, Zero, R(-1)), Radians(3, Zero, One),
                 Radians(-5, Q(3, 5), Q(4, 5)) }

\* the argument lists of the pitch calls made
PitchArgs ==
    { [angle |-> a, lock_view |-> TRUE, rotate_around_target |-> r, rotate_up |-> FALSE] :
          a \in PitchAngles, r \in BOOLEAN }
    \cup
    { [angle |-> A37, lock_view |-> FALSE, rotate_around_target |-> TRUE, rotate_up |-> FALSE],
      [angle |-> Radians(0, Q(-3, 5), Q(4, 5)), lock_view |-> FALSE, rotate_around_target |-> FALSE,
       rotate_up |-> FALSE],
      [angle |-> AngleNeg(A37), lock_view |-> FALSE, rotate_around_target |-> FALSE,
       rotate_up |-> TRUE],
      [angle |-> A37, lock_view |-> TRUE, rotate_around_target |-> TRUE, rotate_up |-> TRUE] }

InitCamera ==
    /\ op = "init"
    /\ res = [panic |-> FALSE]
    /\ lhs = NoMatrix
    /\ rhs = NoMatrix
    /\ vec = NoVector
    /\ qa = NoQuat
    /\ qb = NoQuat
    /\ amt = Zero
    /\ cam \in CameraInputs
    /\ before = cam
    /\ arg = NoArg
    /\ calls = 0

\* a call may begin: no call has panicked, and the camera is one the model
\* computes exactly
CanCall ==
    /\ ~res.panic
    /\ calls < MaxCalls
    /\ CameraExact(cam)

Yaw ==
    \E angle \in YawAngles, rotate_around_target \in BOOLEAN :
        /\ CanCall
        /\ op' = "yaw"
        /\ arg' = [angle |-> angle, rotate_around_target |-> rotate_around_target]
        /\ before' = cam
        /\ cam' = CameraYaw(cam, angle, rotate_around_target)
        /\ res' = [panic |-> FALSE]
        /\ calls' = calls + 1
        /\ UNCHANGED <<lhs, rhs, vec, qa, qb, amt>>

Pitch ==
    \E a \in PitchArgs :
        /\ CanCall
        /\ op' = "pitch"
        /\ arg' = a
        /\ before' = cam
        /\ IF CameraPitchPanics(cam, a.angle, a.lock_view)
           THEN cam' = cam /\ res' = [panic |-> TRUE]
           ELSE /\ cam' = CameraPitch(cam, a.angle, a.lock_view, a.rotate_around_target,
                                      a.rotate_up)
                /\ res' = [panic |-> FALSE]
        /\ calls' = calls + 1
        /\ UNCHANGED <<lhs, rhs, vec, qa, qb, amt>>


\* Matrix::look_at(eye, target, up)
MatrixLookAt(eye, target, upv) ==
    LET vz == Vector3Sub(eye, target)
        vx == Vector3Normalize(cross_product(upv, vz))
        vy == cross_product(vz, vx)
    IN  << << vx.x, vx.y, vx.z, FNeg(Vector3Dot(vx, eye)) >>,
           << vy.x, vy.y, vy.z, FNeg(Vector3Dot(vy, eye)) >>,
           << vz.x, vz.y, vz.z, FNeg(Vector3Dot(vz, eye)) >>,
           << Zero, Zero, Zero, One >> >>

\* self.view_matrix(): the body is todo!(), which panics before anything is
\* read or returned
ViewMatrix ==
    /\ CanCall
    /\ op' = "view_matrix"
    /\ arg' = NoArg
    /\ before' = cam
    /\ cam' = cam
    /\ res' = [panic |-> TRUE]
    /\ calls' = calls + 1
    /\ UNCHANGED <<lhs, rhs, vec, qa, qb, amt>>


\* Matrix::frustrum(left, right, bottom, top, near_plane, far_plane)
MatrixFrustrum(left, right, bottom, top, near_plane, far_plane) ==
    LET width  == FSub(right, left)
        height == FSub(top, bottom)
        depth  == FSub(far_plane, near_plane)
    IN  << << FDiv(FMul(near_plane, Two), width), Zero,
              FDiv(FAdd(right, left), width), Zero >>,
           << Zero, FDiv(FMul(near_plane, Two), height),
              FDiv(FAdd(top, bottom), height), Zero >>,
           << Zero, Zero, FDiv(FNeg(FAdd(far_plane, near_plane)), depth),
              FDiv(FNeg(FMul(FMul(far_plane, near_plane), Two)), depth) >>,
           << Zero, Zero, R(-1), Zero >> >>

\* (fovy * 0.5).tan(), for fovy in (-pi, pi): sin / (1 + cos)
TanHalf(fovy) == FDiv(fovy.s, FAdd(One, fovy.c))

\* Matrix::perspective(fovy, aspect, near_plane, far_plane)
MatrixPerspective(fovy, aspect, near_plane, far_plane) ==
    LET top    == FMul(near_plane, TanHalf(fovy))
        right  == FMul(top, aspect)
        bottom == FNeg(top)
        left   == FNeg(right)
    IN  MatrixFrustrum(left, right, bottom, top, near_plane, far_plane)

\* Matrix::ortho(left, right, bottom, top, near_plane, far_plane)
MatrixOrtho(left, right, bottom, top, near_plane, far_plane) ==
    LET width  == FSub(right, left)
        height == FSub(top, bottom)
        depth  == FSub(far_plane, near_plane)
    IN  << << FDiv(Two, width), Zero, Zero, FDiv(FNeg(FAdd(right, left)), width) >>,
           << Zero, FDiv(Two, height), Zero, FDiv(FNeg(FAdd(top, bottom)), height) >>,
           << Zero, Zero, FDiv(R(-2), depth),
              FDiv(FNeg(FAdd(far_plane, near_plane)), depth) >>,
           << Zero, Zero, Zero, One >> >>

CULL_DISTANCE_NEAR == Q(1, 100)

CULL_DISTANCE_FAR == R(1000)

\* width / height of the viewport asked for
Aspects == { One, Q(16, 9) }

\* self.projection_matrix(aspect): the body is todo!(), which panics before
\* anything is read or returned
ProjectionMatrix ==
    \E aspect \in Aspects :
        /\ CanCall
        /\ op' = "projection_matrix"
        /\ arg' = [aspect |-> aspect]
        /\ before' = cam
        /\ cam' = cam
        /\ res' = [panic |-> TRUE]
        /\ calls' = calls + 1
        /\ UNCHANGED <<lhs, rhs, vec, qa, qb, amt>>

NextCamera == Yaw \/ Pitch \/ ViewMatrix \/ ProjectionMatrix

SpecCamera == InitCamera /\ [][NextCamera]_vars

--------------------------------------------------------------------------


(* Camera movement: move_forward, move_up, move_right, mixed with yaw and  *)
(* pitch                                                                    *)

\* v with its y component set to 0.0
Flatten(v) == [v EXCEPT !.y = Zero]

\* Camera::move_forward
CameraMoveForward(c, distance, move_in_world_plane) ==
    LET forward0 == CameraForward(c)
        forward1 == IF move_in_world_plane
                    THEN Vector3Normalize(Flatten(forward0))
                    ELSE forward0
        forward == Vector3MulF(forward1, distance)
    IN  [c EXCEPT !.position = Vector3Add(c.position, forward),
                  !.target = Vector3Add(c.target, forward)]

\* Camera::move_up
CameraMoveUp(c, distance) ==
    LET upv == Vector3MulF(CameraUp(c), distance)
    IN  [c EXCEPT !.position = Vector3Add(c.position, upv),
                  !.target = Vector3Add(c.target, upv)]

\* Camera::move_right
CameraMoveRight(c, distance, move_in_world_plane) ==
    LET right0 == CameraRight(c)
        right1 == IF move_in_world_plane
                  THEN Vector3Normalize(Flatten(right0))
                  ELSE right0
        right == Vector3MulF(right1, distance)
    IN  [c EXCEPT !.position = Vector3Add(c.position, right),
                  !.target = Vector3Add(c.target, right)]

\* the length of the flattened direction is rational (0 included)
FlatExact(v) == HasExactSqrt(Vector3MagnitudeSqr(Flatten(v)))

\* level, looking straight down, and pitched down
WalkInputs ==
    { Camera3D(V3(0, 0, 5), V3(0, 0, 0), V3(0, 1, 0), R(45), "Perspective"),
      Camera3D(V3(0, 5, 0), V3(0, 0, 0), V3(0, 0, -1), R(45), "Perspective"),
      Camera3D(V3(0, 3, 4), V3(0, 0, 0), V3(0, 1, 0), R(60), "Orthographic") }

WalkDistances == { R(2), Q(-1, 2) }

InitWalk ==
    /\ op = "init"
    /\ res = [panic |-> FALSE]
    /\ lhs = NoMatrix
    /\ rhs = NoMatrix
    /\ vec = NoVector
    /\ qa = NoQuat
    /\ qb = NoQuat
    /\ amt = Zero
    /\ cam \in WalkInputs
    /\ before = cam
    /\ arg = NoArg
    /\ calls = 0

MoveForward ==
    \E distance \in WalkDistances, move_in_world_plane \in BOOLEAN :
        /\ CanCall
        /\ move_in_world_plane => FlatExact(CameraForward(cam))
        /\ op' = "move_forward"
        /\ arg' = [distance |-> distance, move_in_world_plane |-> move_in_world_plane]
        /\ before' = cam
        /\ cam' = CameraMoveForward(cam, distance, move_in_world_plane)
        /\ res' = [panic |-> FALSE]
        /\ calls' = calls + 1
        /\ UNCHANGED <<lhs, rhs, vec, qa, qb, amt>>

MoveUp ==
    \E distance \in WalkDistances :
        /\ CanCall
        /\ op' = "move_up"
        /\ arg' = [distance |-> distance, move_in_world_plane |-> FALSE]
        /\ before' = cam
        /\ cam' = CameraMoveUp(cam, distance)
        /\ res' = [panic |-> FALSE]
        /\ calls' = calls + 1
        /\ UNCHANGED <<lhs, rhs, vec, qa, qb, amt>>

MoveRight ==
    \E distance \in WalkDistances, move_in_world_plane \in BOOLEAN :
        /\ CanCall
        /\ move_in_world_plane => FlatExact(CameraRight(cam))
        /\ op' = "move_right"
        /\ arg' = [distance |-> distance, move_in_world_plane |-> move_in_world_plane]
        /\ before' = cam
        /\ cam' = CameraMoveRight(cam, distance, move_in_world_plane)
        /\ res' = [panic |-> FALSE]
        /\ calls' = calls + 1
        /\ UNCHANGED <<lhs, rhs, vec, qa, qb, amt>>

NextWalk == Yaw \/ Pitch \/ MoveForward \/ MoveUp \/ MoveRight

SpecWalk == InitWalk /\ [][NextWalk]_vars

--------------------------------------------------------------------------


(* Rotation constructors applied to drawn angles *)

UNIT_X == V3(1, 0, 0)

UNIT_Z == V3(0, 0, 1)

RotationAngles ==
    { ANGLE_ZERO, FRAC_PI_2, PI, Radians(0, Q(4, 5), Q(3, 5)), Radians(0, Q(3, 5), Q(-4, 5)) }

InitRotate ==
    /\ op = "init"
    /\ res = [panic |-> FALSE]
    /\ lhs = NoMatrix
    /\ rhs = NoMatrix
    /\ vec = NoVector
    /\ qa = NoQuat
    /\ qb = NoQuat
    /\ amt = Zero
    /\ cam = NoCamera
    /\ before = NoCamera
    /\ \E x \in RotationAngles, y \in RotationAngles, z \in RotationAngles :
           arg = [x |-> x, y |-> y, z |-> z]
    /\ calls = 0

\* Matrix::rotate_xyz(x, y, z)
RotateXYZ ==
    /\ op = "init"
    /\ op' = "rotate_xyz"
    /\ res' = [panic |-> FALSE, m |-> MatrixRotateXYZ(arg.x, arg.y, arg.z)]
    /\ UNCHANGED <<lhs, rhs, vec, qa, qb, amt, cam, before, arg, calls>>

\* Matrix::rotate_x(x), rotate_y(y), rotate_z(z), and Matrix::rotate about
\* the unit vector of each axis by the same angle
RotateAxes ==
    /\ op = "init"
    /\ op' = "rotate_axes"
    /\ res' = [panic |-> FALSE,
               rotate_x |-> MatrixRotateX(arg.x),
               rotate_y |-> MatrixRotateY(arg.y),
               rotate_z |-> MatrixRotateZ(arg.z),
               about_x |-> MatrixRotate(UNIT_X, arg.x),
               about_y |-> MatrixRotate(UNIT_Y, arg.y),
               about_z |-> MatrixRotate(UNIT_Z, arg.z)]
    /\ UNCHANGED <<lhs, rhs, vec, qa, qb, amt, cam, before, arg, calls>>

NextRotate == RotateXYZ \/ RotateAxes

SpecRotate == InitRotate /\ [][NextRotate]_vars

--------------------------------------------------------------------------


(* Matrix::look_at applied to drawn eyes, targets and up vectors *)

Eyes == { V3(x, y, z) : x \in {0, 3}, y \in {0, 1, 4}, z \in {0, 1, 5} }

LookTargets == { V3(0, 0, 0), V3(0, 1, 0), V3(3, 0, 1) }

Ups == { UNIT_Y, UNIT_Z, V3(0, 2, 0) }

\* the root look_at takes to normalize vx is rational
LookAtExact(eye, target, upv) ==
    HasExactSqrt(Vector3MagnitudeSqr(cross_product(upv, Vector3Sub(eye, target))))

InitLookAt ==
    /\ op = "init"
    /\ res = [panic |-> FALSE]
    /\ lhs = NoMatrix
    /\ rhs = NoMatrix
    /\ vec = NoVector
    /\ qa = NoQuat
    /\ qb = NoQuat
    /\ amt = Zero
    /\ cam = NoCamera
    /\ before = NoCamera
    /\ \E eye \in Eyes, target \in LookTargets, upv \in Ups :
           arg = [eye |-> eye, target |-> target, up |-> upv]
    /\ calls = 0

\* Matrix::look_at(eye, target, up)
LookAt ==
    /\ op = "init"
    /\ LookAtExact(arg.eye, arg.target, arg.up)
    /\ op' = "look_at"
    /\ res' = [panic |-> FALSE, m |-> MatrixLookAt(arg.eye, arg.target, arg.up)]
    /\ UNCHANGED <<lhs, rhs, vec, qa, qb, amt, cam, before, arg, calls>>

NextLookAt == LookAt

SpecLookAt == InitLookAt /\ [][NextLookAt]_vars

--------------------------------------------------------------------------

(* Angular units (math/units.rs).  A Degrees value is held as its number   *)
(* of degrees; a Radians value as the rational q of the angle q * pi, so   *)
(* that std::f32::consts::PI is 1 and TAU is 2.  Sums and comparisons of   *)
(* the wrapped scalars are those of the rationals.                          *)

\* impl Angular for Radians, in multiples of pi
AngularRadians ==
    [ZERO      |-> Zero,
     FRAC_1_16 |-> Q(1, 8),
     FRAC_1_12 |-> Q(1, 6),
     FRAC_1_8  |-> Q(1, 2),
     FRAC_1_4  |-> Q(1, 2),
     FRAC_1_2  |-> One,
     FULL      |-> Two]

\* impl Angular for Degrees
AngularDegrees ==
    [ZERO      |-> Zero,
     FRAC_1_16 |-> Q(45, 2),
     FRAC_1_12 |-> R(30),
     FRAC_1_8  |-> R(45),
     FRAC_1_4  |-> R(90),
     FRAC_1_2  |-> R(180),
     FULL      |-> R(360)]

AngularUnits == { "Radians", "Degrees" }

Angular(unit) == IF unit = "Radians" THEN AngularRadians ELSE AngularDegrees

ConstNames == { "ZERO", "FRAC_1_16", "FRAC_1_12", "FRAC_1_8", "FRAC_1_4", "FRAC_1_2", "FULL" }

\* the largest integer not above x
FFloor(x) == x.n \div x.d

\* Wrap::wrap(value, min, max): the values of [min, max] that differ from
\* value by a whole number of (max - min); which end of the range a value
\* on the seam goes to is left open
Wrap(value, min, max) ==
    IF IsNaN(value) \/ ~FLt(min, max) THEN { NaN } ELSE
    LET range == FSub(max, min)
        base  == FSub(value, FMul(range, R(FFloor(FDiv(FSub(value, min), range)))))
    IN  IF base = min THEN { min, max } ELSE { base }

\* the sum left as it is
wrapping_add_unwrapped(unit, self, addend) == { FAdd(self, addend) }

\* Angular::wrapping_add: the results the call can give
wrapping_add(unit, self, addend) ==
    Wrap(FAdd(self, addend), FNeg(Angular(unit).FULL), Angular(unit).FULL)

\* Angular::is_positive_normal
is_positive_normal(unit, self) ==
    FLe(Angular(unit).ZERO, self) /\ FLe(self, Angular(unit).FULL)

\* Angular::is_negative_normal
is_negative_normal(unit, self) ==
    FLe(Angular(unit).ZERO, self) /\ FLe(self, Angular(unit).FULL)

\* Angular::is_signed_normal
is_signed_normal(unit, self) ==
    FLe(FNeg(Angular(unit).FRAC_1_2), self) /\ FLe(self, Angular(unit).FRAC_1_2)

\* angles drawn run up to MaxEighths eighths of a turn either way
MaxEighths == 16

\* the angle of t turns, as a value of the unit
Turns(unit, t) == FMul(t, Angular(unit).FULL)

TurnInputs ==
    { Q(k, 8) : k \in (-MaxEighths)..MaxEighths }
    \cup { Q(35, 36), Q(1, 18), Q(-35, 36), Q(-1, 18), Q(-1, 3) }

InitUnits ==
    /\ op = "init"
    /\ res = [panic |-> FALSE]
    /\ lhs = NoMatrix
    /\ rhs = NoMatrix
    /\ vec = NoVector
    /\ qa = NoQuat
    /\ qb = NoQuat
    /\ amt = Zero
    /\ cam = NoCamera
    /\ before = NoCamera
    /\ \E unit \in AngularUnits, s \in TurnInputs, t \in TurnInputs :
           arg = [unit |-> unit, self |-> Turns(unit, s), addend |-> Turns(unit, t)]
    /\ calls = 0

\* self.wrapping_add(addend)
WrappingAdd ==
    /\ op = "init"
    /\ op' = "wrapping_add"
    /\ \E sum \in wrapping_add(arg.unit, arg.self, arg.addend) :
           res' = [panic |-> FALSE, sum |-> sum]
    /\ UNCHANGED <<lhs, rhs, vec, qa, qb, amt, cam, before, arg, calls>>

\* self.is_positive_normal(), self.is_negative_normal(), self.is_signed_normal()
NormalTests ==
    /\ op = "init"
    /\ op' = "normal_tests"
    /\ res' = [panic |-> FALSE,
               positive |-> is_positive_normal(arg.unit, arg.self),
               negative |-> is_negative_normal(arg.unit, arg.self),
               signed   |-> is_signed_normal(arg.unit, arg.self)]
    /\ UNCHANGED <<lhs, rhs, vec, qa, qb, amt, cam, before, arg, calls>>

\* a read of one of the constants of the unit
ReadConst ==
    \E name \in ConstNames :
        /\ op = "init"
        /\ op' = "const"
        /\ res' = [panic |-> FALSE, name |-> name, value |-> Angular(arg.unit)[name]]
        /\ UNCHANGED <<lhs, rhs, vec, qa, qb, amt, cam, before, arg, calls>>

NextUnits == WrappingAdd \/ NormalTests \/ ReadConst

SpecUnits == InitUnits /\ [][NextUnits]_vars

--------------------------------------------------------------------------

(* Camera::move_to_target in IEEE-754 binary32: every operation rounds to  *)
(* 24 significant bits, to nearest, ties to even.  A finite f32 is          *)
(* [m, e], standing for m * 2^e with m odd (or m = 0 and e = 0); the        *)
(* exponent range is not bounded, the inputs stay far from its ends.        *)

F32(m, e) == [m |-> m, e |-> e]

\* any non-finite value (an infinity or a NaN)
NonFinite32 == F32(0, 1)

IsNonFinite32(x) == x = NonFinite32

RECURSIVE Pow2(_)
Pow2(k) == IF k = 0 THEN 1 ELSE 2 * Pow2(k - 1)

RECURSIVE BitLen(_)
BitLen(n) == IF n = 0 THEN 0 ELSE 1 + BitLen(n \div 2)

RECURSIVE Norm32(_, _)
Norm32(m, e) ==
    IF m = 0 THEN F32(0, 0)
    ELSE IF m % 2 = 0 THEN Norm32(m \div 2, e + 1)
    ELSE F32(m, e)

MantissaBits == 24

\* n / 2^k rounded to the nearest integer, ties to even (n >= 0)
RoundShift(n, k) ==
    IF k = 0 THEN n
    ELSE LET q == n \div Pow2(k)
             r == n % Pow2(k)
             half == Pow2(k - 1)
         IN  IF r > half \/ (r = half /\ q % 2 = 1) THEN q + 1 ELSE q

\* the f32 nearest to m * 2^e
Round32(m, e) ==
    LET a == Abs(m)
        b == BitLen(a)
    IN  IF b <= MantissaBits THEN Norm32(m, e)
        ELSE LET q == RoundShift(a, b - MantissaBits)
             IN  Norm32(IF m < 0 THEN -q ELSE q, e + (b - MantissaBits))

I32(i) == Norm32(i, 0)

\* f32::EPSILON, 2^-23
EPSILON == F32(1, 1 - MantissaBits)

Neg32(x) == IF IsNonFinite32(x) THEN x ELSE F32(-x.m, x.e)

\* the position just above the leading bit: 2^(Top - 1) <= |x| < 2^Top
Top32(x) == x.e + BitLen(Abs(x.m))

\* a + b, rounded.  Operands too far apart to align in 30 bits are
\* added as the hardware does: the larger one is widened to 29 bits
\* and the bits of the smaller one below that are kept as one sticky bit,
\* which leaves the sum on the same side of every rounding boundary.
Add32(a, b) ==
    LET e == IF a.e < b.e THEN a.e ELSE b.e
        big == IF Top32(a) >= Top32(b) THEN a ELSE b
        small == IF Top32(a) >= Top32(b) THEN b ELSE a
        unit == Top32(big) - 29
        k == unit - small.e
        sm == Abs(small.m)
        floor == IF k >= BitLen(sm) THEN 0 ELSE sm \div Pow2(k)
        sticky == IF k >= BitLen(sm) THEN TRUE ELSE sm % Pow2(k) # 0
        jam == IF sticky /\ floor % 2 = 0 THEN floor + 1 ELSE floor
    IN  CASE IsNonFinite32(a) \/ IsNonFinite32(b) -> NonFinite32
          [] a.m = 0 -> b
          [] b.m = 0 -> a
          [] Top32(a) - e <= 30 /\ Top32(b) - e <= 30 ->
                Round32(a.m * Pow2(a.e - e) + b.m * Pow2(b.e - e), e)
          [] OTHER ->
                Round32(big.m * Pow2(big.e - unit)
                            + (IF small.m < 0 THEN -jam ELSE jam), unit)

Sub32(a, b) == Add32(a, Neg32(b))

\* a * b, rounded; 0 * infinity is a NaN
Mul32(a, b) ==
    IF IsNonFinite32(a) \/ IsNonFinite32(b) THEN NonFinite32
    ELSE Round32(a.m * b.m, a.e + b.e)

\* 1.0 / x, rounded; 1.0 / 0.0 is an infinity
Recip32(x) ==
    IF IsNonFinite32(x) \/ x.m = 0 THEN NonFinite32
    ELSE LET a == Abs(x.m)
             k == MantissaBits - 1 + BitLen(a)
             q == Pow2(k) \div a
             r == Pow2(k) % a
             up == IF 2 * r > a THEN q + 1 ELSE q
         IN  Norm32(IF x.m < 0 THEN -up ELSE up, (-k) - x.e)

\* the square root of x is a rational, so that sqrt() is exact
HasExactSqrt32(x) ==
    /\ ~IsNonFinite32(x)
    /\ x.m >= 0
    /\ x.e % 2 = 0
    /\ IsSquare(x.m)

Sqrt32(x) ==
    IF IsNonFinite32(x) \/ x.m < 0 THEN NonFinite32
    ELSE Norm32(ISqrt(x.m), x.e \div 2)

Lt32(a, b) ==
    /\ ~IsNonFinite32(a)
    /\ ~IsNonFinite32(b)
    /\ Sub32(a, b).m < 0

\* f32::max: the other operand when one is a NaN
Max32(a, b) ==
    IF IsNonFinite32(a) THEN b
    ELSE IF IsNonFinite32(b) THEN a
    ELSE IF Lt32(a, b) THEN b ELSE a

W3(x, y, z) == Vector3(I32(x), I32(y), I32(z))

Vector3Add32(a, b) == Vector3(Add32(a.x, b.x), Add32(a.y, b.y), Add32(a.z, b.z))

Vector3Sub32(a, b) == Vector3(Sub32(a.x, b.x), Sub32(a.y, b.y), Sub32(a.z, b.z))

Vector3MulF32(a, f) == Vector3(Mul32(a.x, f), Mul32(a.y, f), Mul32(a.z, f))

\* Div<f32>: multiplies by the reciprocal
Vector3DivF32(a, f) ==
    LET inv == Recip32(f) IN Vector3(Mul32(a.x, inv), Mul32(a.y, inv), Mul32(a.z, inv))

Vector3Dot32(a, b) ==
    Add32(Add32(Mul32(a.x, b.x), Mul32(a.y, b.y)), Mul32(a.z, b.z))

Vector3Magnitude32(a) == Sqrt32(Vector3Dot32(a, a))

Vector3Normalize32(a) == Vector3DivF32(a, Vector3Magnitude32(a))

Vector3Distance32(a, b) == Vector3Magnitude32(Vector3Sub32(a, b))

CameraForward32(c) == Vector3Normalize32(Vector3Sub32(c.target, c.position))

\* the distance move_to_target places the camera at
MoveToTargetDistance(c, delta) ==
    Max32(Add32(Vector3Distance32(c.position, c.target), delta), EPSILON)

\* Camera::move_to_target
CameraMoveToTarget(c, delta) ==
    LET distance == MoveToTargetDistance(c, delta)
    IN  [c EXCEPT !.position =
            Vector3Add32(c.target, Vector3MulF32(CameraForward32(c), Neg32(distance)))]

\* a coordinate of at most 12 bits, whose square is computed in 32 bits
Short32(x) == ~IsNonFinite32(x) /\ BitLen(Abs(x.m)) <= 12

\* the distance to the target is taken exactly: coordinates of few bits and
\* a rational square root, whose reciprocal is computed in 32 bits
MoveExact(c) ==
    LET view == Vector3Sub32(c.target, c.position)
    IN  /\ \A v \in {c.position, c.target} : Short32(v.x) /\ Short32(v.y) /\ Short32(v.z)
        /\ Short32(view.x) /\ Short32(view.y) /\ Short32(view.z)
        /\ HasExactSqrt32(Vector3Dot32(view, view))
        /\ BitLen(Vector3Magnitude32(view).m) < 32 - MantissaBits

MaxMoves == 2

MoveTargets == { W3(0, 0, 0), W3(0, 0, 100), W3(-64, 3, 0) }

MoveOffsets == { W3(0, 0, 5), W3(3, 4, 0), W3(0, -2, 0), W3(-12, 0, 5) }

MoveInputs ==
    { Camera3D(Vector3Add32(t, o), t, W3(0, 1, 0), I32(45), "Perspective") :
          t \in MoveTargets, o \in MoveOffsets }

Deltas == { I32(-10), I32(-1), I32(1), I32(3), F32(1, -1) }

InitMove ==
    /\ op = "init"
    /\ res = [panic |-> FALSE]
    /\ lhs = NoMatrix
    /\ rhs = NoMatrix
    /\ vec = NoVector
    /\ qa = NoQuat
    /\ qb = NoQuat
    /\ amt = Zero
    /\ cam \in MoveInputs
    /\ before = cam
    /\ arg = NoArg
    /\ calls = 0

MoveToTarget ==
    \E delta \in Deltas :
        /\ calls < MaxMoves
        /\ MoveExact(cam)
        /\ op' = "move_to_target"
        /\ arg' = [delta |-> delta]
        /\ before' = cam
        /\ cam' = CameraMoveToTarget(cam, delta)
        /\ res' = [panic |-> FALSE]
        /\ calls' = calls + 1
        /\ UNCHANGED <<lhs, rhs, vec, qa, qb, amt>>

NextMove == MoveToTarget

SpecMove == InitMove /\ [][NextMove]_vars

--------------------------------------------------------------------------
(* C1: Matrix::IDENTITY * M equals M and M * Matrix::IDENTITY equals M,     *)
(* entry for entry.                                                         *)
C1_IdentityIsNeutral ==
    op = "mul" =>
        /\ (lhs = IDENTITY => res.m = rhs)
        /\ (rhs = IDENTITY => res.m = lhs)

(* C2: v.transform(A * B) equals v.transform(B).transform(A): the right    *)
(* operand of * is applied first.                                           *)
C2_RightOperandFirst ==
    op = "transform" => res.composed = res.chained

\* reference determinant: Laplace expansion along the first row
Det2(M, r1, r2, c1, c2) ==
    FSub(FMul(E(M,r1,c1), E(M,r2,c2)), FMul(E(M,r1,c2), E(M,r2,c1)))

Det3(M, c1, c2, c3) ==
    FAdd(FSub(FMul(E(M,1,c1), Det2(M, 2, 3, c2, c3)),
              FMul(E(M,1,c2), Det2(M, 2, 3, c1, c3))),
         FMul(E(M,1,c3), Det2(M, 2, 3, c1, c2)))

RefDet(M) ==
    FSub(FAdd(FSub(FMul(E(M,0,0), Det3(M, 1, 2, 3)),
                   FMul(E(M,0,1), Det3(M, 0, 2, 3))),
              FMul(E(M,0,2), Det3(M, 0, 1, 3))),
         FMul(E(M,0,3), Det3(M, 0, 1, 2)))

NonSingular(M) == RefDet(M) # Zero

(* C3: for every non-singular M, M.invert() * M equals Matrix::IDENTITY    *)
(* (in exact arithmetic).                                                   *)
C3_InvertTimesSelf ==
    op = "invert_mul" /\ NonSingular(lhs) => res.m = IDENTITY

\* translate(1,2,3) * rotate_y(a) * scale(2,3,4) was inverted and multiplied
C3_Witness ==
    /\ op = "invert_mul"
    /\ lhs = MatrixMul(MatrixMul(MatrixTranslate(R(1), R(2), R(3)),
                                 MatrixRotateY(Radians(0, Q(4, 5), Q(3, 5)))),
                       MatrixScale(R(2), R(3), R(4)))
    /\ NonSingular(lhs)
    /\ res.m = IDENTITY

\* the quaternion of the rotation by the angle of half h about Y
QuatAboutY(h) == Quaternion(Zero, h.s, Zero, h.c)

(* C6: decompose of translate(t) * rotate(UNIT_Y, angle) * scale(s,s,s),   *)
(* s > 0, returns translation t, scale (s,s,s) and the quaternion of the   *)
(* rotation by angle about Y (up to sign).                                  *)
C6_DecomposeRecovers ==
    op = "decompose" =>
        \A t \in Translations, h \in HalfAngles, s \in Scales :
            lhs = TRS(t, DoubleAngle(h), s) =>
                /\ ~res.panic
                /\ res.d.translation = t
                /\ res.d.scale = Vector3(R(s), R(s), R(s))
                /\ res.d.rotation \in {QuatAboutY(h), QuaternionNeg(QuatAboutY(h))}


(* C4: Quaternion * is the Hamilton product.                                *)
C4_HamiltonProduct ==
    op = "quat_mul" =>
        res.q = Quaternion(
            FSub(FAdd(FAdd(FMul(qa.w, qb.x), FMul(qa.x, qb.w)), FMul(qa.y, qb.z)), FMul(qa.z, qb.y)),
            FSub(FAdd(FAdd(FMul(qa.w, qb.y), FMul(qa.y, qb.w)), FMul(qa.z, qb.x)), FMul(qa.x, qb.z)),
            FSub(FAdd(FAdd(FMul(qa.w, qb.z), FMul(qa.z, qb.w)), FMul(qa.x, qb.y)), FMul(qa.y, qb.x)),
            FSub(FSub(FSub(FMul(qa.w, qb.w), FMul(qa.x, qb.x)), FMul(qa.y, qb.y)), FMul(qa.z, qb.z)))

(* C5: for every unit quaternion q, Quaternion::from(Matrix::from(q)) is   *)
(* q or -q, and converting once more gives the same matrix.                 *)
C5_RoundTrip ==
    op = "round_trip" /\ IsUnit(qa) =>
        /\ ~res.panic
        /\ res.q \in {qa, QuaternionNeg(qa)}
        /\ res.m2 = res.m

(* C7: for all unit quaternions a and b, a.slerp_to(b, 0.0) equals a and   *)
(* a.slerp_to(b, 1.0) equals b.                                             *)
C7_SlerpBoundary ==
    op = "slerp" /\ IsUnit(qa) /\ IsUnit(qb) =>
        /\ (amt = Zero => res.q = qa)
        /\ (amt = One => res.q = qb)

(* C7 as amended: a.slerp_to(b, 0.0) equals a; a.slerp_to(b, 1.0) equals b *)
(* when dot(a, b) >= 0 and -b, the same rotation, when dot(a, b) < 0.       *)
C7_SlerpBoundaryUpToSign ==
    op = "slerp" /\ IsUnit(qa) /\ IsUnit(qb) =>
        /\ (amt = Zero => res.q = qa)
        /\ (amt = One =>
                res.q = IF FLt(QuaternionDot(qa, qb), Zero) THEN QuaternionNeg(qb) ELSE qb)

\* a slerp to the end of a pair with negative dot product, through the
\* sine-weighted branch
C7_Witness ==
    /\ op = "slerp"
    /\ IsUnit(qa) /\ IsUnit(qb)
    /\ amt = One
    /\ FLt(QuaternionDot(qa, qb), Zero)
    /\ FGt(QuaternionDot(qa, qb), R(-1))
    /\ res.q = QuaternionNeg(qb)


(* C8: from position (0,0,5), target (0,0,0), up (0,1,0),                   *)
(* yaw(PI/2, rotate_around_target = true) moves position to (5,0,0) and    *)
(* leaves target at (0,0,0).                                                *)
C8_YawQuarterTurn ==
    /\ op = "yaw"
    /\ before.position = V3(0, 0, 5) /\ before.target = V3(0, 0, 0) /\ before.up = V3(0, 1, 0)
    /\ arg.angle = FRAC_PI_2 /\ arg.rotate_around_target
    => cam.position = V3(5, 0, 0) /\ cam.target = V3(0, 0, 0)

C8_Witness ==
    /\ op = "yaw"
    /\ before.position = V3(0, 0, 5) /\ before.target = V3(0, 0, 0) /\ before.up = V3(0, 1, 0)
    /\ arg.angle = FRAC_PI_2 /\ arg.rotate_around_target
    /\ cam.position = V3(5, 0, 0)

View(c) == Vector3Sub(c.target, c.position)

\* the angle between up() and the view vector
ViewAngle(c) == Vector3Angle(CameraUp(c), View(c))

NotParallel(c) ==
    LET x == cross_product(CameraUp(c), View(c))
    IN  ~IsNaN(x.x) /\ ~IsNaN(x.y) /\ ~IsNaN(x.z) /\ x # V3(0, 0, 0)

InGuardBand(c) ==
    AngleLe(GUARD, ViewAngle(c)) /\ AngleLe(ViewAngle(c), AngleSub(PI, GUARD))

C10_MoveToTarget ==
    op = "move_to_target" /\ before.position # before.target =>
        /\ cam.target = before.target
        /\ cam.position # cam.target
        /\ MoveExact(cam) =>
              Vector3Distance32(cam.position, cam.target)
                  = MoveToTargetDistance(before, arg.delta)

(* C11: for every camera with position # target, view_matrix() returns     *)
(* normally, its result is Matrix::look_at(position, target, up()), and    *)
(* the camera is left unchanged.                                            *)
C11_ViewMatrix ==
    op = "view_matrix" /\ before.position # before.target =>
        /\ ~res.panic
        /\ cam = before
        /\ res.m = MatrixLookAt(before.position, before.target, CameraUp(before))

\* the field of view, given in degrees, as an angle in radians
FovyInRadians(c) ==
    CASE c.fovy = R(90)  -> FRAC_PI_2
      [] c.fovy = R(180) -> PI
      [] c.fovy = R(0)   -> ANGLE_ZERO

\* the orthographic volume sized by fovy: half-height fovy / 2, half-width
\* that times the aspect ratio
OrthoSizedByFovy(c, aspect) ==
    LET top   == FDiv(c.fovy, Two)
        right == FMul(top, aspect)
    IN  MatrixOrtho(FNeg(right), right, FNeg(top), top,
                    CULL_DISTANCE_NEAR, CULL_DISTANCE_FAR)

(* C12: projection_matrix(aspect) returns normally and leaves the camera   *)
(* unchanged; for a Perspective camera its result is                        *)
(* Matrix::perspective(fovy in radians, aspect, near, far), for an         *)
(* Orthographic camera it is Matrix::ortho of a volume sized by fovy.       *)
C12_ProjectionMatrix ==
    op = "projection_matrix" =>
        /\ ~res.panic
        /\ cam = before
        /\ before.projection = "Perspective" /\ before.fovy \in {R(0), R(90), R(180)} =>
              res.m = MatrixPerspective(FovyInRadians(before), arg.aspect,
                                        CULL_DISTANCE_NEAR, CULL_DISTANCE_FAR)
        /\ before.projection = "Orthographic" =>
              res.m = OrthoSizedByFovy(before, arg.aspect)

(* C13: every math-core operation is total: Matrix::decompose and          *)
(* Quaternion::from(Matrix) return a result for every matrix, one with     *)
(* NaN entries such as the invert() of a singular matrix included.         *)
C13_Total ==
    op \in {"decompose", "quaternion_from"} => ~res.panic

(* C14: the conversion of a Matrix to [f32; 16] is column-major: element   *)
(* 4*c + r of the array equals M[r][c], for r, c in 0..3.                   *)
C14_ColumnMajor ==
    op = "to_array" =>
        \A r \in 0..3, c \in 0..3 : res.arr[4 * c + r + 1] = E(lhs, r, c)

\* a matrix that differs from its transpose was converted
C14_Witness ==
    /\ op = "to_array"
    /\ lhs = General
    /\ res.arr[4 * 1 + 0 + 1] = R(2)
    /\ res.arr[4 * 0 + 1 + 1] = Zero

\* the upper-left 3x3 block of mat times v
Linear3(v, mat) ==
    [x |-> FAdd(FAdd(FMul(E(mat,0,0), v.x), FMul(E(mat,0,1), v.y)), FMul(E(mat,0,2), v.z)),
     y |-> FAdd(FAdd(FMul(E(mat,1,0), v.x), FMul(E(mat,1,1), v.y)), FMul(E(mat,1,2), v.z)),
     z |-> FAdd(FAdd(FMul(E(mat,2,0), v.x), FMul(E(mat,2,1), v.y)), FMul(E(mat,2,2), v.z))]

(* C15: Vector3::transform(M) uses an implicit w = 0: the result is the    *)
(* upper-left 3x3 block of M times the vector, the translation column of   *)
(* M does not contribute, and so a translate matrix leaves every Vector3   *)
(* unchanged.                                                               *)
C15_TransformIgnoresTranslation ==
    op = "transform3" =>
        /\ res.v = Linear3(Vector3(vec.x, vec.y, vec.z), lhs)
        /\ lhs = MatrixTranslate(R(1), R(2), R(3)) => res.v = Vector3(vec.x, vec.y, vec.z)

(* C16: for all angles a, b of one unit, a.wrapping_add(b) lies within     *)
(* [-FULL, FULL]; Degrees(350).wrapping_add(Degrees(20)) lies within       *)
(* [-360, 360].                                                             *)
C16_WrappingAddInRange ==
    op = "wrapping_add" =>
        /\ FLe(FNeg(Angular(arg.unit).FULL), res.sum)
        /\ FLe(res.sum, Angular(arg.unit).FULL)

\* Degrees(350).wrapping_add(Degrees(20)) was taken, and its plain sum 370
\* is out of the range
C16_Witness ==
    /\ op = "wrapping_add"
    /\ arg.unit = "Degrees" /\ arg.self = R(350) /\ arg.addend = R(20)
    /\ FLe(R(-360), res.sum) /\ FLe(res.sum, R(360))

\* the fraction of a turn each constant is named after
TurnFraction(name) ==
    CASE name = "ZERO"      -> Zero
      [] name = "FRAC_1_16" -> Q(1, 16)
      [] name = "FRAC_1_12" -> Q(1, 12)
      [] name = "FRAC_1_8"  -> Q(1, 8)
      [] name = "FRAC_1_4"  -> Q(1, 4)
      [] name = "FRAC_1_2"  -> Q(1, 2)
      [] name = "FULL"      -> One

StrictlyIncreasing(k) ==
    /\ FLt(k.ZERO, k.FRAC_1_16)
    /\ FLt(k.FRAC_1_16, k.FRAC_1_12)
    /\ FLt(k.FRAC_1_12, k.FRAC_1_8)
    /\ FLt(k.FRAC_1_8, k.FRAC_1_4)
    /\ FLt(k.FRAC_1_4, k.FRAC_1_2)
    /\ FLt(k.FRAC_1_2, k.FULL)

(* C17: for Radians and for Degrees each fractional-turn constant equals   *)
(* that fraction of FULL (ZERO is 0), the constants are strictly           *)
(* increasing in that order, and each Radians constant denotes the same    *)
(* angle as the Degrees constant of the same name.                          *)
C17_TurnConstants ==
    op = "const" =>
        /\ res.value = FMul(TurnFraction(res.name), Angular(arg.unit).FULL)
        /\ StrictlyIncreasing(Angular(arg.unit))
        /\ FDiv(AngularRadians[res.name], AngularRadians.FULL)
               = FDiv(AngularDegrees[res.name], AngularDegrees.FULL)

(* C18: is_negative_normal(a) is true exactly when -FULL <= a <= ZERO; it  *)
(* is a different test from is_positive_normal (ZERO <= a <= FULL).         *)
C18_NegativeNormal ==
    op = "normal_tests" =>
        /\ res.negative <=> /\ FLe(FNeg(Angular(arg.unit).FULL), arg.self)
                            /\ FLe(arg.self, Angular(arg.unit).ZERO)
        /\ res.positive <=> /\ FLe(Angular(arg.unit).ZERO, arg.self)
                            /\ FLe(arg.self, Angular(arg.unit).FULL)

(* C19: Matrix::decompose returns as translation the last column           *)
(* (M[0][3], M[1][3], M[2][3]); decompose of translate(x, y, z) has        *)
(* translation (x, y, z).                                                   *)
C19_DecomposeTranslation ==
    op = "decompose" =>
        /\ res.d.translation = Vector3(E(lhs,0,3), E(lhs,1,3), E(lhs,2,3))
        /\ lhs = MatrixTranslate(R(1), R(2), R(3)) =>
              res.d.translation = Vector3(R(1), R(2), R(3))

\* the dot product as slerp_to uses it: of self and the nearer of target
\* and -target
SlerpCos(self, target) ==
    LET c == QuaternionDot(self, target) IN IF FLt(c, Zero) THEN FNeg(c) ELSE c

SlerpTarget(self, target) ==
    IF FLt(QuaternionDot(self, target), Zero) THEN QuaternionNeg(target) ELSE target

\* self * sin((1 - amount) * t) / sin(t) + target * sin(amount * t) / sin(t),
\* t the angle of cosine c
SineBlend(self, target, amount, c) ==
    LET t == acos(c)
    IN  QuaternionAdd(
            QuaternionMulF(self, FDiv(AngleTimes(FSub(One, amount), t).s, t.s)),
            QuaternionMulF(target, FDiv(AngleTimes(amount, t).s, t.s)))

(* C20: slerp_to selects its branch from c, the dot product of self and    *)
(* target after the flip (c < 0 negates target and c): c >= 1.0 returns    *)
(* self whatever the amount; 0.95 < c < 1.0 returns                        *)
(* nlerp_to(target, amount); c <= 0.95 returns the sine-weighted blend.    *)
C20_SlerpBranches ==
    op = "slerp" =>
        LET c == SlerpCos(qa, qb)
            t == SlerpTarget(qa, qb)
        IN  /\ FGe(c, One) => res.q = qa
            /\ FGt(c, Q(19, 20)) /\ FLt(c, One) => res.q = nlerp_to(qa, t, amt)
            /\ FLe(c, Q(19, 20)) => res.q = SineBlend(qa, t, amt, c)

\* a target of length 0.6 along self: c = 0.6, and at amount 1.0 the blend
\* returns the target as it is, where a normalized lerp would return self
C20_Witness ==
    /\ op = "slerp"
    /\ qa = QUAT_IDENTITY /\ qb = QQ(0, 0, 0, 3, 5) /\ amt = One
    /\ res.q = qb

(* C21: in Quaternion::to_euler the value passed to asin for the pitch     *)
(* (y-axis) term lies in [-1, 1], for every input quaternion, unit or not. *)
C21_AsinArgumentInDomain ==
    op = "to_euler" => FLe(R(-1), res.args.y0) /\ FLe(res.args.y0, One)

(* C22: yaw and pitch with rotate_around_target = true leave target        *)
(* unchanged (only position moves); with rotate_around_target = false      *)
(* they leave position unchanged (only target moves); fovy and projection  *)
(* are never changed, and up is changed only by pitch with rotate_up.      *)
C22_YawPitchFrame ==
    op \in {"yaw", "pitch"} =>
        /\ arg.rotate_around_target => cam.target = before.target
        /\ ~arg.rotate_around_target => cam.position = before.position
        /\ cam.fovy = before.fovy
        /\ cam.projection = before.projection
        /\ ~(op = "pitch" /\ arg.rotate_up) => cam.up = before.up

\* a pitch about the position that also turned up: target and up moved,
\* position stayed
C22_Witness ==
    /\ op = "pitch"
    /\ ~arg.rotate_around_target /\ arg.rotate_up
    /\ cam.position = before.position
    /\ cam.target # before.target
    /\ cam.up # before.up

\* every coordinate of position and target is a number
FiniteCamera(c) ==
    \A v \in {c.position, c.target} : ~IsNaN(v.x) /\ ~IsNaN(v.y) /\ ~IsNaN(v.z)

(* C23: move_forward, move_up and move_right add one and the same vector   *)
(* to position and to target: the view vector (target - position) is       *)
(* identical before and after the call, and up, fovy and projection are    *)
(* unchanged.                                                               *)
C23_MovesKeepView ==
    op \in {"move_forward", "move_up", "move_right"} =>
        /\ View(cam) = View(before)
        /\ cam.up = before.up
        /\ cam.fovy = before.fovy
        /\ cam.projection = before.projection

(* C24: with move_in_world_plane = true, move_forward and move_right leave *)
(* position.y and target.y unchanged, for every direction of the view      *)
(* vector, straight up or down included, and every distance.               *)
C24_WorldPlaneKeepsHeight ==
    op \in {"move_forward", "move_right"} /\ arg.move_in_world_plane =>
        /\ cam.position.y = before.position.y
        /\ cam.target.y = before.target.y

\* the square of the distance between position and target
DistanceSqr(c) == Vector3MagnitudeSqr(Vector3Sub(c.position, c.target))

(* C28: yaw, pitch, move_forward, move_up and move_right, with any         *)
(* arguments, on a camera with position # target, each leave the distance  *)
(* between position and target as it was, so that after any sequence of    *)
(* them it equals its initial value.                                        *)
C28_DistancePreserved ==
    op \in {"yaw", "pitch", "move_forward", "move_up", "move_right"}
        /\ before.position # before.target =>
            DistanceSqr(cam) = DistanceSqr(before)

(* C25: Matrix::det computes the determinant of the 4x4 matrix: its        *)
(* 24-term result equals the reference (Laplace) determinant, with         *)
(* det(IDENTITY) = 1 and det(scale(x, y, z)) = x*y*z, and it equals the    *)
(* denominator whose reciprocal Matrix::invert uses.                        *)
C25_Det ==
    op = "det" =>
        /\ res.det = RefDet(lhs)
        /\ res.det = res.denominator
        /\ lhs = IDENTITY => res.det = One
        /\ lhs = MatrixScale(R(2), R(3), R(4)) => res.det = R(24)

\* the determinant of a matrix with entries off the diagonal on both sides
C25_Witness ==
    /\ op = "det"
    /\ lhs = General
    /\ res.det = RefDet(General)
    /\ res.det # MatrixDetDiagonal(General)

(* C26: Matrix::rotate_xyz composes the single-axis rotations with their   *)
(* sign convention: rotate_xyz(a,0,0) equals rotate_x(a), rotate_xyz(0,a,0) *)
(* equals rotate_y(a), rotate_xyz(0,0,a) equals rotate_z(a), as            *)
(* rotate(UNIT_X, a) equals rotate_x(a) and likewise for Y and Z.           *)
C26_RotateXYZSingleAxis ==
    /\ op = "rotate_xyz" =>
          /\ arg.y = ANGLE_ZERO /\ arg.z = ANGLE_ZERO => res.m = MatrixRotateX(arg.x)
          /\ arg.x = ANGLE_ZERO /\ arg.z = ANGLE_ZERO => res.m = MatrixRotateY(arg.y)
          /\ arg.x = ANGLE_ZERO /\ arg.y = ANGLE_ZERO => res.m = MatrixRotateZ(arg.z)
    /\ op = "rotate_axes" =>
          /\ res.about_x = res.rotate_x
          /\ res.about_y = res.rotate_y
          /\ res.about_z = res.rotate_z

AffineConstructed ==
    { MatrixTranslate(R(1), R(2), R(3)),
      MatrixScale(R(2), R(3), R(4)),
      MatrixScale(Zero, One, One),
      MatrixRotateY(Radians(0, Q(4, 5), Q(3, 5))),
      MatrixRotateX(FRAC_PI_2) }

(* C27: every matrix obtained from the affine constructors (translate,     *)
(* scale, rotate, rotate_x, rotate_y, rotate_z, rotate_xyz) by `*` has the *)
(* bottom row [0, 0, 0, 1].                                                *)
C27_AffineBottomRow ==
    op = "mul" /\ lhs \in AffineConstructed /\ rhs \in AffineConstructed =>
        res.m[4] = <<Zero, Zero, Zero, One>>

(* C29: in Quaternion::slerp_to the branch returning                       *)
(* self * 0.5 + target * 0.5 (sin_half_theta.abs() < f32::EPSILON) is      *)
(* never taken: it is only tested once cos_half_theta, made non-negative,  *)
(* is at most 0.95, and the sine of the half angle is then far from zero.  *)
C29_EvenBlendUnreachable ==
    op = "slerp" =>
        /\ res.branch # "even"
        /\ res.branch = "slerp" =>
              LET c == FAbsF(QuaternionDot(qa, qb))
              IN  /\ FLe(c, Q(19, 20))
                  /\ FGe(FSub(One, FMul(c, c)), Q(39, 400))

C29_Witness ==
    /\ op = "slerp"
    /\ res.branch = "slerp"
    /\ FLt(QuaternionDot(qa, qb), Zero)
    /\ IsUnit(qa) /\ IsUnit(qb)

Row3(m, i) == Vector3(m[i][1], m[i][2], m[i][3])

\* row i of m applied to the point p, w = 1
RowAtPoint(m, i, p) == FAdd(Vector3Dot(Row3(m, i), p), m[i][4])

LookAtDefined ==
    /\ arg.eye # arg.target
    /\ cross_product(arg.up, Vector3Sub(arg.eye, arg.target)) # V3(0, 0, 0)

(* C30: Matrix::look_at returns a rigid view transform for every           *)
(* eye != target with up not parallel to the view direction: the rows vx,  *)
(* vy, vz are mutually orthogonal and each of unit length whatever the     *)
(* distance between eye and target, and the matrix maps eye to the origin. *)
C30_LookAtRigid ==
    op = "look_at" /\ LookAtDefined =>
        /\ Vector3Dot(Row3(res.m, 1), Row3(res.m, 2)) = Zero
        /\ Vector3Dot(Row3(res.m, 1), Row3(res.m, 3)) = Zero
        /\ Vector3Dot(Row3(res.m, 2), Row3(res.m, 3)) = Zero
        /\ \A i \in 1..3 : Vector3MagnitudeSqr(Row3(res.m, i)) = One
        /\ \A i \in 1..3 : RowAtPoint(res.m, i, arg.eye) = Zero


====
